---- MODULE Spec2Model ----
(***************************************************************************)
(* A model of writ: the declarative pipeline runner                        *)
(* (src/src/writ/pipeline.py, PipelineRunner.run_yaml) with the variable   *)
(* resolver it uses (src/src/writ/variables.py) and the outcome line the   *)
(* REPL prints for a run (src/src/writ/app.py, ReplApp._run_pipeline); the *)
(* pipeline loader (PipelineLoader.load_yaml); the secret store and its    *)
(* masking (SecretStore); the executor with its two reader threads         *)
(* (src/src/writ/executor.py); and the REPL's command execution and replay *)
(* (ReplApp._execute_config_command, _execute_shell, _handle_last); the    *)
(* forked background run (ReplApp._fork_pipeline,                          *)
(* PipelineRunner.fork_shell) and the listing of its logs                  *)
(* (ReplApp._logs_list); the output ring buffer (src/src/writ/output.py,   *)
(* OutputBuffer); and the dispatch of the lines typed at the prompt        *)
(* (parse_input, ReplApp.run).                                             *)
(*                                                                         *)
(* Each component has its own specification over the variables below; a    *)
(* specification holds the variables of the other components at their      *)
(* initial values:                                                         *)
(*   Spec          one run_yaml call on a fresh runner, then the outcome   *)
(*   SpecRuns      several run_yaml calls on one runner                    *)
(*   SpecLoad      load_yaml                                               *)
(*   SpecMask      SecretStore.add and SecretStore.mask                    *)
(*   SpecExec      Executor.run, the child, the pipes, the readers         *)
(*   FairSpecExec  the same under a fair scheduler                         *)
(*   SpecRepl      registered commands, shell escapes and `last`           *)
(*   SpecResolve   VariableResolver.resolve over the four scopes           *)
(*   SpecFork      `pipeline fork`: fork_shell, children, watcher threads  *)
(*   FairSpecFork  the same under a fair scheduler                         *)
(*   SpecBuffer    OutputBuffer.add and OutputBuffer.last                  *)
(*   SpecDispatch  the REPL loop: builtins, registered commands, shell     *)
(*   SpecLogs      one fork whose script may print anything, `logs`        *)
(*   SpecLoadRun   load_yaml followed by run_yaml on its result            *)
(*   SpecNested    resolve, one _replace call at a time, over values that  *)
(*                 look like placeholders; FairSpecNested runs it on       *)
(*                                                                         *)
(* Python strings are sequences of one-character strings, so that the      *)
(* string operations of the code (==, startswith, slicing, replace, the    *)
(* regular expression of the resolver) are computed and not assumed.  A    *)
(* dict is a function on its key set; a dict that the code iterates (a     *)
(* `when` mapping, the secrets) is the sequence of its (key, value) items  *)
(* in insertion order.  None and the empty string / empty list are both    *)
(* the empty sequence where the code only tests truthiness (step.command,  *)
(* step.run, step.when, pipeline.variables); an optional value             *)
(* (StepResult.execution_result, a timeout) is a sequence of zero or one   *)
(* element.                                                                *)
(***************************************************************************)
EXTENDS Integers, Sequences, FiniteSets, TLC

VARIABLES
    pipeline,   \* the YamlPipeline handed to run_yaml: [variables, steps]
    registry,   \* PipelineRunner._registry._commands: name -> CommandConfig
    environ,    \* os.environ of the process
    resolver,   \* PipelineRunner._resolver: [config_vars, pipeline_vars, secrets]
    results,    \* run_yaml's local list of StepResult
    idx,        \* iteration count of `for step in pipeline.steps` (1-based)
    pc,         \* "begin" | "loop" | "exec" | "returned" | "raised" | "reported"
    pending,    \* the command text handed to Executor.run while pc = "exec"
    trace,      \* Executor.run events: <<"call", i, text>> and <<"return", i, rc>>
    error,      \* the exception that left run_yaml, "" when none
    outcome,    \* the line _run_pipeline prints after the run, "" before
    proc,       \* the process of the pending Executor.run: [timeout, behaviour]
    runs,       \* number of run_yaml calls made on this PipelineRunner so far
    prior,      \* the names declared by the `variables` of the earlier calls' pipelines
    file,       \* PipelineLoader.load_yaml: what yaml.safe_load makes of the file at `path`
    loaded,     \* PipelineLoader.load_yaml: how the call ended, and the YamlPipeline
    store,      \* SecretStore._secrets: the (key, value) items in insertion order
    subject,    \* the argument of SecretStore.mask
    masked,     \* what SecretStore.mask returned: zero or one string
    xmain,      \* Executor.run: [pc, timeout, timed_out, expired] of the calling thread
    child,      \* the process of Popen: [state, script, returncode]
    held,       \* a descendant of the child holds the write ends of both pipes
    pipe,       \* the lines in the stdout and stderr pipes, written and not yet read
    reader,     \* the two _read_stream threads: [state, lines] each
    xres,       \* the ExecutionResult of Executor.run: [returncode, stdout, stderr]
    buffer,     \* ReplApp._output_buffer: the retained ExecutionResults, oldest first
    printed,    \* what the last `last` command printed: the strings, in order
    vr,         \* a VariableResolver and os.environ: [pipeline_vars, config_vars, secrets, environ]
    template,   \* the argument of VariableResolver.resolve
    answer,     \* how resolve ended: [status, ok, text], status "none" before the call,
                \* "scanning" (with the unscanned `rest`) while sub() is at work
    forks,      \* the fork_shell calls made, in order: [pc, fork_id, log_path, handle, child, desc, watcher]
    logs,       \* the files of the log directory: path -> the blocks written, in file order
    fout,       \* what _fork_pipeline printed: [name, msg, arg] per request handled
    launcher,   \* the process that runs the REPL is alive
    capacity,   \* OutputBuffer: the maxlen of its deque
    added,      \* every result handed to OutputBuffer.add so far, oldest first
    mode,       \* ReplApp._settings.mode
    ran,        \* the Executor.run calls of the REPL loop: [via, text] each, in order
    handled,    \* the number of input lines the REPL loop has handled
    typed,      \* the line the latest iteration of the loop read
    reply,      \* the answer to the confirmation prompt of the latest iteration: [asked, text]
    got         \* the latest OutputBuffer.last call: [called, n, result]; not called when add came after

\* The state of one PipelineRunner and of the run_yaml call in progress.
runnerVars ==
    <<pipeline, registry, environ, resolver, results, idx, pc, pending, trace, error, outcome,
      proc, runs, prior>>

\* The state of the other components, which a run_yaml call does not touch.
loaderVars == <<file, loaded>>

maskVars == <<store, subject, masked>>

execVars == <<xmain, child, held, pipe, reader, xres>>

replVars == <<buffer, printed>>

resolveVars == <<vr, template, answer>>

\* The components that are specified on their own further down.
forkVars == <<forks, logs, fout, launcher>>

historyVars == <<capacity, added, got>>

dispatchVars == <<mode, ran, handled, typed, reply>>

auxVars == <<resolveVars, forkVars, historyVars, dispatchVars>>

beyondRunner == <<loaderVars, maskVars, execVars, replVars, auxVars>>

vars == <<runnerVars, beyondRunner>>

----------------------------------------------------------------------------
(* Bounds of the model. *)

MaxSteps == 2

\* The most run_yaml calls made on one PipelineRunner.
MaxRuns == 2

\* The longest text handed to SecretStore.mask.
MaxText == 4

\* The most lines a child process writes.
MaxWrites == 2

\* The capacity of the OutputBuffer (settings.buffer_size).
BufferSize == 2

----------------------------------------------------------------------------
(* String literals of the code, as character sequences. *)

PrevStepKey == <<"p", "r", "e", "v", "_", "s", "t", "e", "p">>
StepPrefix == <<"s", "t", "e", "p", ".">>
SucceededLit == <<"s", "u", "c", "c", "e", "e", "d", "e", "d">>
FailedLit == <<"f", "a", "i", "l", "e", "d">>

StartsWith(s, p) == Len(s) >= Len(p) /\ SubSeq(s, 1, Len(p)) = p

EmptyDict == [k \in {} |-> <<>>]

----------------------------------------------------------------------------
(* variables.py: VariableResolver.resolve *)

\* A faulty _replace: the configured variables are consulted before the
\* pipeline's.
ReplaceConfigFirst(r, env, var_name) ==
    IF var_name \in DOMAIN r.config_vars THEN <<r.config_vars[var_name]>>
    ELSE IF var_name \in DOMAIN r.pipeline_vars THEN <<r.pipeline_vars[var_name]>>
    ELSE IF var_name \in DOMAIN r.secrets THEN <<r.secrets[var_name]>>
    ELSE IF var_name \in DOMAIN env THEN <<env[var_name]>>
    ELSE <<>>

\* A faulty _replace: a name that no scope holds is replaced by the empty string.
ReplaceMissingAsEmpty(r, env, var_name) ==
    IF var_name \in DOMAIN r.pipeline_vars THEN <<r.pipeline_vars[var_name]>>
    ELSE IF var_name \in DOMAIN r.config_vars THEN <<r.config_vars[var_name]>>
    ELSE IF var_name \in DOMAIN r.secrets THEN <<r.secrets[var_name]>>
    ELSE IF var_name \in DOMAIN env THEN <<env[var_name]>>
    ELSE << <<>> >>

\* _replace: pipeline > config > secrets > env; a sequence of zero (unresolved)
\* or one value.
Replace(r, env, var_name) ==
    IF var_name \in DOMAIN r.pipeline_vars THEN <<r.pipeline_vars[var_name]>>
    ELSE IF var_name \in DOMAIN r.config_vars THEN <<r.config_vars[var_name]>>
    ELSE IF var_name \in DOMAIN r.secrets THEN <<r.secrets[var_name]>>
    ELSE IF var_name \in DOMAIN env THEN <<env[var_name]>>
    ELSE <<>>

\* The index of the first "}" of text at or after j, 0 when there is none.
RECURSIVE FindClose(_, _)
FindClose(text, j) ==
    IF j > Len(text) THEN 0
    ELSE IF text[j] = "}" THEN j
    ELSE FindClose(text, j + 1)

\* A faulty pattern, \$\{([^}]*)\}: the name may be empty.
MatchEndEmptyName(text, i) ==
    IF /\ i + 2 <= Len(text)
       /\ text[i] = "$"
       /\ text[i + 1] = "{"
    THEN FindClose(text, i + 2)
    ELSE 0

\* VAR_PATTERN = \$\{([^}]+)\} anchored at i: the index of the closing brace of
\* the match that starts at i, 0 when no match starts at i.
MatchEnd(text, i) ==
    IF /\ i + 3 <= Len(text)
       /\ text[i] = "$"
       /\ text[i + 1] = "{"
       /\ text[i + 2] # "}"
    THEN FindClose(text, i + 3)
    ELSE 0

\* VAR_PATTERN.sub(_replace, text) from position i on, out being the text
\* produced so far: leftmost non-overlapping matches, each replaced by the
\* value _replace returns (inserted verbatim); a raise in _replace ends the call.
RECURSIVE ResolveFrom(_, _, _, _, _)
ResolveFrom(r, env, text, i, out) ==
    IF i > Len(text) THEN [ok |-> TRUE, text |-> out]
    ELSE LET m == MatchEnd(text, i) IN
         IF m = 0 THEN ResolveFrom(r, env, text, i + 1, Append(out, text[i]))
         ELSE LET v == Replace(r, env, SubSeq(text, i + 2, m - 1)) IN
              IF v = <<>> THEN [ok |-> FALSE, text |-> SubSeq(text, i + 2, m - 1)]
              ELSE ResolveFrom(r, env, text, m + 1, out \o v[1])

\* resolve(text): [ok |-> TRUE, text |-> the result] or, when VariableError is
\* raised, [ok |-> FALSE, text |-> the unresolved name].
Resolve(r, env, text) == ResolveFrom(r, env, text, 1, <<>>)

----------------------------------------------------------------------------
(* commands.py: CommandRegistry.get *)

\* A sequence of zero (CommandNotFoundError) or one CommandConfig.
RegistryGet(reg, name_or_alias) ==
    IF name_or_alias \in DOMAIN reg.commands THEN <<reg.commands[name_or_alias]>>
    ELSE IF name_or_alias \in DOMAIN reg.alias_map
         THEN <<reg.commands[reg.alias_map[name_or_alias]]>>
    ELSE <<>>

----------------------------------------------------------------------------
(* output.py and pipeline.py: the records *)

\* A faulty variant of Succeeded that takes only exit code 1 for a failure.
SucceededUnlessOne(execution_result) == execution_result.returncode # 1

\* ExecutionResult.succeeded
Succeeded(execution_result) == execution_result.returncode = 0

ExecutionResult(command, returncode) == [command |-> command, returncode |-> returncode]

PipelineStep(name, on_failure, command, run, when) ==
    [name |-> name, on_failure |-> on_failure, command |-> command, run |-> run, when |-> when]

StepResult(step_name, succeeded, skipped, execution_result) ==
    [step_name |-> step_name, succeeded |-> succeeded, skipped |-> skipped,
     execution_result |-> execution_result]

----------------------------------------------------------------------------
(* pipeline.py: PipelineRunner._evaluate_conditions *)

Min(S) == CHOOSE x \in S : \A y \in S : x <= y

\* next((r for r in results if r.step_name == step_name), None): a sequence of
\* zero or one StepResult, the first recorded one with that name.
FirstNamed(res, step_name) ==
    LET found == {i \in 1..Len(res) : res[i].step_name = step_name} IN
    IF found = {} THEN <<>> ELSE <<res[Min(found)]>>

\* A faulty variant of PrevStepPasses that misses the "failed" comparison.
PrevStepPassesSucceededOnly(expected, res) ==
    IF res = <<>> THEN FALSE
    ELSE ~(expected = SucceededLit /\ ~res[Len(res)].succeeded)

\* Another: the clause passes when no result has been recorded yet.
PrevStepPassesWithoutResults(expected, res) ==
    IF res = <<>> THEN TRUE
    ELSE LET prev == res[Len(res)] IN
         IF expected = SucceededLit /\ ~prev.succeeded THEN FALSE
         ELSE IF expected = FailedLit /\ prev.succeeded THEN FALSE
         ELSE TRUE

\* Lines 327-333, the `prev_step` branch: FALSE when it executes `return False`.
PrevStepPasses(expected, res) ==
    IF res = <<>> THEN FALSE
    ELSE LET prev == res[Len(res)] IN
         IF expected = SucceededLit /\ ~prev.succeeded THEN FALSE
         ELSE IF expected = FailedLit /\ prev.succeeded THEN FALSE
         ELSE TRUE

\* A faulty variant of NamedStepPasses that lets the clause pass when the
\* named step has no result.
NamedStepPassesWhenMissing(step_name, expected, res) ==
    LET step_result == FirstNamed(res, step_name) IN
    IF step_result = <<>> THEN TRUE
    ELSE IF expected = SucceededLit /\ ~step_result[1].succeeded THEN FALSE
    ELSE IF expected = FailedLit /\ step_result[1].succeeded THEN FALSE
    ELSE TRUE

\* Lines 335-342, the `step.<name>` branch.
NamedStepPasses(step_name, expected, res) ==
    LET step_result == FirstNamed(res, step_name) IN
    IF step_result = <<>> THEN FALSE
    ELSE IF expected = SucceededLit /\ ~step_result[1].succeeded THEN FALSE
    ELSE IF expected = FailedLit /\ step_result[1].succeeded THEN FALSE
    ELSE TRUE

\* A faulty variant of VariablePasses that lets the clause pass when the key
\* cannot be resolved.
VariablePassesWhenUnresolved(key, expected, r, env) ==
    LET actual == Resolve(r, env, <<"$", "{">> \o key \o <<"}">>) IN
    IF actual.ok THEN actual.text = expected ELSE TRUE

\* Lines 344-350, the variable check: resolve "${key}", compare; any exception
\* is caught and counts as `return False`.
VariablePasses(key, expected, r, env) ==
    LET actual == Resolve(r, env, <<"$", "{">> \o key \o <<"}">>) IN
    IF actual.ok THEN actual.text = expected ELSE FALSE

\* The body of the inner loop for one (key, expected) item: FALSE when it
\* executes `return False`, TRUE when it falls through to the next item.
ItemPasses(key, expected, res, r, env) ==
    IF key = PrevStepKey THEN PrevStepPasses(expected, res)
    ELSE IF StartsWith(key, StepPrefix)
         THEN NamedStepPasses(SubSeq(key, 6, Len(key)), expected, res)
    ELSE VariablePasses(key, expected, r, env)

\* `for key, expected in condition.items()` from item k on.
RECURSIVE ItemsPass(_, _, _, _, _)
ItemsPass(condition, k, res, r, env) ==
    IF k > Len(condition) THEN TRUE
    ELSE IF ~ItemPasses(condition[k][1], condition[k][2], res, r, env) THEN FALSE
    ELSE ItemsPass(condition, k + 1, res, r, env)

\* `for condition in conditions` from condition c on.
RECURSIVE ConditionsPass(_, _, _, _, _)
ConditionsPass(conditions, c, res, r, env) ==
    IF c > Len(conditions) THEN TRUE
    ELSE IF ~ItemsPass(conditions[c], 1, res, r, env) THEN FALSE
    ELSE ConditionsPass(conditions, c + 1, res, r, env)

\* A faulty variant of EvaluateConditions that returns after the first mapping.
EvaluateFirstConditionOnly(conditions, res, r, env) ==
    conditions = <<>> \/ ItemsPass(conditions[1], 1, res, r, env)

EvaluateConditions(conditions, res, r, env) == ConditionsPass(conditions, 1, res, r, env)

----------------------------------------------------------------------------
(* pipeline.py: PipelineRunner._execute_step and the loop of run_yaml *)

\* A faulty variant of ExecuteStep: text whose placeholder no scope resolves is
\* handed to the Executor as written.
ExecuteStepUnresolvedAsWritten(step, reg, r, env) ==
    IF step.command # <<>> THEN
        LET cmd == RegistryGet(reg, step.command) IN
        IF cmd = <<>> THEN [kind |-> "raise", error |-> "CommandNotFoundError", text |-> step.command]
        ELSE LET resolved == Resolve(r, env, cmd[1].command) IN
             [kind |-> "call", error |-> "", timeout |-> <<>>,
              text |-> IF resolved.ok THEN resolved.text ELSE cmd[1].command]
    ELSE IF step.run # <<>> THEN
        LET resolved == Resolve(r, env, step.run) IN
        [kind |-> "call", error |-> "", timeout |-> <<>>,
         text |-> IF resolved.ok THEN resolved.text ELSE step.run]
    ELSE [kind |-> "raise", error |-> "PipelineError", text |-> step.name, timeout |-> <<>>]

\* What _execute_step does up to its call of Executor.run: either the call
\* (with the resolved command text and the `timeout` argument, which neither
\* call of lines 313 and 317 passes, so that it is the default None) or the
\* exception it raises.
ExecuteStep(step, reg, r, env) ==
    IF step.command # <<>> THEN
        LET cmd == RegistryGet(reg, step.command) IN
        IF cmd = <<>> THEN [kind |-> "raise", error |-> "CommandNotFoundError", text |-> step.command]
        ELSE LET resolved == Resolve(r, env, cmd[1].command) IN
             IF resolved.ok
             THEN [kind |-> "call", error |-> "", text |-> resolved.text, timeout |-> <<>>]
             ELSE [kind |-> "raise", error |-> "VariableError", text |-> resolved.text,
                   timeout |-> <<>>]
    ELSE IF step.run # <<>> THEN
        LET resolved == Resolve(r, env, step.run) IN
        IF resolved.ok
        THEN [kind |-> "call", error |-> "", text |-> resolved.text, timeout |-> <<>>]
        ELSE [kind |-> "raise", error |-> "VariableError", text |-> resolved.text,
              timeout |-> <<>>]
    ELSE [kind |-> "raise", error |-> "PipelineError", text |-> step.name, timeout |-> <<>>]

\* `if step.when and not self._evaluate_conditions(step.when, results)`
SkipsStep(step, res, r, env) ==
    step.when # <<>> /\ ~EvaluateConditions(step.when, res, r, env)

\* Faulty variants of BreaksLoop: one that misses the `abort` branch, one that
\* misses the `skip_remaining` branch, one that breaks on every failure.
BreaksLoopWithoutAbort(step, exec_result) ==
    ~Succeeded(exec_result) /\ step.on_failure = "skip_remaining"

BreaksLoopWithoutSkipRemaining(step, exec_result) ==
    ~Succeeded(exec_result) /\ step.on_failure = "abort"

BreaksLoopOnAnyFailure(step, exec_result) == ~Succeeded(exec_result)

\* Another: the loop breaks after the first command, whatever its result.
BreaksLoopAlways(step, exec_result) == TRUE

\* Another: the loop goes on after a failure only under `continue`.
BreaksLoopUnlessContinue(step, exec_result) ==
    ~Succeeded(exec_result) /\ step.on_failure # "continue"

\* "Handle failure": whether the loop breaks after this step's result.
BreaksLoop(step, exec_result) ==
    IF ~Succeeded(exec_result) THEN
        IF step.on_failure = "abort" THEN TRUE
        ELSE IF step.on_failure = "skip_remaining" THEN TRUE
        ELSE FALSE
    ELSE FALSE

\* A faulty variant of DeclIndex: the loop visits the steps last to first.
DeclIndexReversed(n, k) == n + 1 - k

\* `for step in pipeline.steps`: the declared position of the step that the
\* k-th iteration visits, for a list of n steps.
DeclIndex(n, k) == k

\* The resolver run_yaml works with: pipeline variables merged over the
\* runner's resolver when the pipeline declares any.
MergedResolver(r, p) ==
    IF p.variables # EmptyDict THEN
        [config_vars |-> p.variables @@ r.config_vars,
         pipeline_vars |-> p.variables,
         secrets |-> r.secrets]
    ELSE r

\* run_yaml as a function of its inputs and of the return code rcs[i] that the
\* command of the i-th declared step produces if it is executed: the loop from
\* iteration k on, acc being [results, calls] so far.  The value is how the call
\* ends ("returned" or "raised"), the list of StepResult and the set of
\* (declared position, command text) handed to the Executor.
RECURSIVE RunLoop(_, _, _, _, _, _, _)
RunLoop(steps, reg, r, env, rcs, k, acc) ==
    IF k > Len(steps) THEN [status |-> "returned", results |-> acc.results, calls |-> acc.calls]
    ELSE LET i == DeclIndex(Len(steps), k)
             step == steps[i] IN
         IF SkipsStep(step, acc.results, r, env) THEN
             RunLoop(steps, reg, r, env, rcs, k + 1,
                     [results |-> Append(acc.results, StepResult(step.name, TRUE, TRUE, <<>>)),
                      calls |-> acc.calls])
         ELSE LET x == ExecuteStep(step, reg, r, env) IN
              IF x.kind = "raise"
              THEN [status |-> "raised", results |-> acc.results, calls |-> acc.calls]
              ELSE LET exec_result == ExecutionResult(x.text, rcs[i])
                       next == [results |-> Append(acc.results,
                                    StepResult(step.name, Succeeded(exec_result), FALSE,
                                               <<exec_result>>)),
                                calls |-> acc.calls \cup {<<i, x.text>>}] IN
                   IF BreaksLoop(step, exec_result)
                   THEN [status |-> "returned", results |-> next.results, calls |-> next.calls]
                   ELSE RunLoop(steps, reg, r, env, rcs, k + 1, next)

RunYaml(p, reg, r, env, rcs) ==
    RunLoop(p.steps, reg, MergedResolver(r, p), env, rcs, 1, [results |-> <<>>, calls |-> {}])

\* A faulty variant of OverallSucceeded that looks at the last result only.
OverallSucceededLastOnly(res) == res = <<>> \/ res[Len(res)].succeeded

\* app.py _run_pipeline: succeeded = all(r.succeeded or r.skipped for r in results)
OverallSucceeded(res) == \A i \in 1..Len(res) : res[i].succeeded \/ res[i].skipped

----------------------------------------------------------------------------
(* The inputs the model runs on. *)

\* Process return codes: success, an ordinary failure, a child killed by signal 9.
ReturnCodes == {0, 1, -9}

NameA == <<"a">>
NameB == <<"b">>
KeyStepA == StepPrefix \o NameA
VarV == <<"v">>
VarU == <<"u">>
One == <<"1">>
Two == <<"2">>
PlainText == <<"x">>
TextWithV == <<"x", "$", "{", "v", "}">>
TextWithU == <<"x", "$", "{", "u", "}">>
CmdC == <<"c">>
CmdD == <<"d">>

\* The ambient configuration of the runner: v is a configuration variable, u is
\* in no scope.
AmbientResolver ==
    [config_vars |-> (VarV :> One), pipeline_vars |-> EmptyDict, secrets |-> EmptyDict]

\* One registered command, c, with a timeout of one second (CommandConfig.timeout
\* is None or a number of seconds: a sequence of zero or one number); d is not
\* registered.
TheRegistry ==
    [commands |-> (CmdC :> [command |-> TextWithV, timeout |-> <<1>>, env |-> EmptyDict]),
     alias_map |-> EmptyDict]

OnFailureValues == {"abort", "continue", "skip_remaining", "retry"}

\* `when` lists: each a list of mappings, each mapping a list of items.
WhenPrevSucceeded == << << <<PrevStepKey, SucceededLit>> >> >>
WhenPrevFailed == << << <<PrevStepKey, FailedLit>> >> >>
WhenPrevOther == << << <<PrevStepKey, One>> >> >>
WhenStepASucceeded == << << <<KeyStepA, SucceededLit>> >> >>
WhenStepAFailed == << << <<KeyStepA, FailedLit>> >> >>
WhenVIsOne == << << <<VarV, One>> >> >>
WhenUIsOne == << << <<VarU, One>> >> >>
WhenTwoMappings == << << <<PrevStepKey, FailedLit>> >>, << <<VarV, One>> >> >>
WhenTwoItems == << << <<VarV, One>>, <<KeyStepA, SucceededLit>> >> >>

\* Steps that vary the failure policy, with and without a condition on the
\* previous step, under two names.
PolicySteps ==
    { PipelineStep(NameA, f, <<>>, PlainText, w) :
        f \in OnFailureValues, w \in {<<>>, WhenPrevFailed} }
    \cup { PipelineStep(NameB, f, <<>>, PlainText, <<>>) : f \in OnFailureValues }

\* Steps that vary the condition.
ConditionSteps ==
    { PipelineStep(NameB, "continue", <<>>, PlainText, w) :
        w \in {WhenPrevSucceeded, WhenPrevOther, WhenStepASucceeded, WhenStepAFailed,
               WhenVIsOne, WhenUIsOne, WhenTwoMappings, WhenTwoItems} }

\* Steps that vary the action: a placeholder no scope resolves, no action at
\* all, a registered and an unregistered command.
ActionSteps ==
    { PipelineStep(NameA, "abort", <<>>, TextWithU, <<>>),
      PipelineStep(NameA, "continue", <<>>, TextWithU, <<>>),
      PipelineStep(NameA, "abort", <<>>, <<>>, <<>>),
      PipelineStep(NameA, "abort", CmdC, <<>>, <<>>),
      PipelineStep(NameA, "abort", CmdD, <<>>, <<>>) }

StepPool == PolicySteps \cup ConditionSteps \cup ActionSteps

StepLists == UNION { [1..n -> StepPool] : n \in 0..MaxSteps }

Pipelines ==
    { [variables |-> v, steps |-> s] : v \in {EmptyDict, (VarV :> Two)}, s \in StepLists }

----------------------------------------------------------------------------
(* The state machine: one call of run_yaml, then the outcome line. *)

\* No Executor.run is pending.
NoProcess == [timeout |-> <<>>, behaviour |-> "none"]

\* What the process of a command does when left alone: it exits by itself, or
\* it never does.
Behaviours == {"exits", "hangs"}

\* The return codes Executor.run can deliver for a process (executor.py lines
\* 62-72): the child's own code once it has exited; -9 after the kill that
\* follows an elapsed timeout; nothing at all while proc.wait(timeout=None)
\* waits for a child that never exits.
ExecutorOutcomes(p) ==
    IF p.behaviour = "exits" THEN ReturnCodes
    ELSE IF p.timeout # <<>> THEN {-9}
    ELSE {}

\* The PipelineRunner as app.py lines 229-234 construct it, before any run_yaml.
FreshRunner ==
    /\ registry = TheRegistry
    /\ environ = EmptyDict
    /\ resolver = AmbientResolver
    /\ results = <<>>
    /\ idx = 0
    /\ pc = "begin"
    /\ pending = <<>>
    /\ trace = <<>>
    /\ error = ""
    /\ outcome = ""
    /\ proc = NoProcess
    /\ runs = 1
    /\ prior = {}

\* load_yaml has not been called.
NoFile == [kind |-> "none", data |-> EmptyDict]
NotLoaded == [status |-> "unloaded", pipeline |-> [variables |-> EmptyDict, steps |-> <<>>]]

LoaderIdle == file = NoFile /\ loaded = NotLoaded

\* A SecretStore as constructed (variables.py line 16), mask not called.
MaskIdle == store = <<>> /\ subject = <<>> /\ masked = <<>>

\* The two streams of a child process.
Streams == {"stdout", "stderr"}

\* Executor.run has not been called.
NoResult == [returncode |-> 0, stdout |-> <<>>, stderr |-> <<>>]

ExecutorIdle ==
    /\ xmain = [pc |-> "idle", timeout |-> <<>>, timed_out |-> FALSE, expired |-> {}]
    /\ child = [state |-> "none", script |-> <<>>, returncode |-> 0]
    /\ held = FALSE
    /\ pipe = [s \in Streams |-> <<>>]
    /\ reader = [s \in Streams |-> [state |-> "idle", lines |-> <<>>]]
    /\ xres = NoResult

\* The REPL has executed nothing and printed nothing.
ReplIdle == buffer = <<>> /\ printed = <<>>

\* resolve has not been called on the resolver under test.
NotResolved == [status |-> "none", ok |-> TRUE, text |-> <<>>]

ResolveIdle ==
    /\ vr = [pipeline_vars |-> EmptyDict, config_vars |-> EmptyDict, secrets |-> EmptyDict,
             environ |-> EmptyDict]
    /\ template = <<>>
    /\ answer = NotResolved

\* No `pipeline fork` was handled and the log directory is empty.
ForkIdle == forks = <<>> /\ logs = EmptyDict /\ fout = <<>> /\ launcher = TRUE

\* An OutputBuffer of capacity 0 to which nothing was added.
NoLast == [called |-> FALSE, n |-> 0, result |-> <<>>]

HistoryIdle == capacity = 0 /\ added = <<>> /\ got = NoLast

\* The words of the two modes (config.py line 12).
Strict == <<"s", "t", "r", "i", "c", "t">>
Open == <<"o", "p", "e", "n">>

\* No confirmation prompt was shown.
NotAsked == [asked |-> FALSE, text |-> <<>>]

\* The REPL loop has read no line.
DispatchIdle ==
    mode = Strict /\ ran = <<>> /\ handled = 0 /\ typed = <<>> /\ reply = NotAsked

AuxIdle == ResolveIdle /\ ForkIdle /\ HistoryIdle /\ DispatchIdle

\* No run_yaml call is in progress and none was made.
RunnerIdle ==
    /\ pipeline = NotLoaded.pipeline
    /\ FreshRunner

Init ==
    /\ pipeline \in Pipelines
    /\ FreshRunner
    /\ LoaderIdle
    /\ MaskIdle
    /\ ExecutorIdle
    /\ ReplIdle
    /\ AuxIdle

NumSteps == Len(pipeline.steps)

\* The step of the current iteration and its declared position.
CurIndex == DeclIndex(NumSteps, idx)
CurStep == pipeline.steps[CurIndex]

\* Lines 187-195: merge the pipeline variables, results = [].
Begin ==
    /\ pc = "begin"
    /\ resolver' = MergedResolver(resolver, pipeline)
    /\ results' = <<>>
    /\ idx' = 1
    /\ pc' = "loop"
    /\ UNCHANGED <<pipeline, registry, environ, pending, trace, error, outcome, proc, runs, prior>>
    /\ UNCHANGED beyondRunner

\* Lines 198-200: the conditions do not hold; record the step as skipped.
SkipStep ==
    /\ pc = "loop"
    /\ idx <= NumSteps
    /\ SkipsStep(CurStep, results, resolver, environ)
    /\ results' = Append(results, StepResult(CurStep.name, TRUE, TRUE, <<>>))
    /\ idx' = idx + 1
    /\ UNCHANGED <<pipeline, registry, environ, resolver, pc, pending, trace, error, outcome,
                   proc, runs, prior>>
    /\ UNCHANGED beyondRunner

\* Line 203, _execute_step up to Executor.run: the process is started.
CallExecutor ==
    /\ pc = "loop"
    /\ idx <= NumSteps
    /\ ~SkipsStep(CurStep, results, resolver, environ)
    /\ LET x == ExecuteStep(CurStep, registry, resolver, environ) IN
        /\ x.kind = "call"
        /\ pending' = x.text
        /\ trace' = Append(trace, <<"call", CurIndex, x.text>>)
        /\ \E b \in Behaviours : proc' = [timeout |-> x.timeout, behaviour |-> b]
    /\ pc' = "exec"
    /\ UNCHANGED <<pipeline, registry, environ, resolver, results, idx, error, outcome,
                   runs, prior>>
    /\ UNCHANGED beyondRunner

\* Line 203, _execute_step raises: the exception leaves run_yaml.
RaiseInStep ==
    /\ pc = "loop"
    /\ idx <= NumSteps
    /\ ~SkipsStep(CurStep, results, resolver, environ)
    /\ LET x == ExecuteStep(CurStep, registry, resolver, environ) IN
        /\ x.kind = "raise"
        /\ error' = x.error
    /\ pc' = "raised"
    /\ UNCHANGED <<pipeline, registry, environ, resolver, results, idx, pending, trace, outcome,
                   proc, runs, prior>>
    /\ UNCHANGED beyondRunner

\* Lines 203-216: Executor.run returns; record the result, handle failure.
ExecutorReturn ==
    /\ pc = "exec"
    /\ \E rc \in ExecutorOutcomes(proc) :
        LET exec_result == ExecutionResult(pending, rc) IN
        /\ trace' = Append(trace, <<"return", CurIndex, rc>>)
        /\ results' = Append(results,
                StepResult(CurStep.name, Succeeded(exec_result), FALSE, <<exec_result>>))
        /\ IF BreaksLoop(CurStep, exec_result)
           THEN pc' = "returned" /\ idx' = idx
           ELSE pc' = "loop" /\ idx' = idx + 1
    /\ pending' = <<>>
    /\ proc' = NoProcess
    /\ UNCHANGED <<pipeline, registry, environ, resolver, error, outcome, runs, prior>>
    /\ UNCHANGED beyondRunner

\* Line 218: the steps are exhausted; return results.
LoopExhausted ==
    /\ pc = "loop"
    /\ idx > NumSteps
    /\ pc' = "returned"
    /\ UNCHANGED <<pipeline, registry, environ, resolver, results, idx, pending, trace, error,
                   outcome, proc, runs, prior>>
    /\ UNCHANGED beyondRunner

\* app.py lines 241-246: the per-step lines and the outcome line.
ReportOutcome ==
    /\ pc = "returned"
    /\ outcome' = IF OverallSucceeded(results) THEN "completed successfully" ELSE "FAILED"
    /\ pc' = "reported"
    /\ UNCHANGED <<pipeline, registry, environ, resolver, results, idx, pending, trace, error,
                   proc, runs, prior>>
    /\ UNCHANGED beyondRunner

Next ==
    \/ Begin
    \/ SkipStep
    \/ CallExecutor
    \/ RaiseInStep
    \/ ExecutorReturn
    \/ LoopExhausted
    \/ ReportOutcome

Spec == Init /\ [][Next]_vars

----------------------------------------------------------------------------
(* Vocabulary of the properties. *)

\* run_yaml has returned its list.
Returned == pc \in {"returned", "reported"}

\* The i-th recorded StepResult is of a step that actually ran.
Ran(i) == i <= Len(results) /\ ~results[i].skipped

\* The i-th recorded StepResult is of a step that ran and failed.
FailedAt(i) == Ran(i) /\ results[i].execution_result[1].returncode # 0

\* The declared positions of the steps whose command was handed to the Executor.
CalledSteps == { trace[j][2] : j \in { m \in 1..Len(trace) : trace[m][1] = "call" } }

----------------------------------------------------------------------------
(* Failure policy *)

\* C1: if step k is the first step that fails and its on_failure is "abort",
\* run_yaml returns exactly k StepResults, the k-th not succeeded, and the
\* Executor is never invoked for the steps k+1..N.
C1_AbortStopsTheRun ==
    \A k \in 1..NumSteps :
        ( /\ FailedAt(k)
          /\ \A j \in 1..(k - 1) : ~FailedAt(j)
          /\ pipeline.steps[k].on_failure = "abort" )
        => /\ Returned
           /\ Len(results) = k
           /\ ~results[k].succeeded
           /\ \A j \in (k + 1)..NumSteps : j \notin CalledSteps

C1_Witness ==
    /\ Returned
    /\ NumSteps = 2
    /\ FailedAt(1)
    /\ pipeline.steps[1].on_failure = "abort"
    /\ Len(results) = 1

\* C2: when a step that ran fails under on_failure "continue", the run does
\* not stop: the loop moves on to the next declared step, which is skipped or
\* executed (or raises on its own action), and whenever run_yaml returns, a
\* StepResult of that next step is recorded right after the failed one.
C2_ContinueProceeds ==
    \A k \in 1..(NumSteps - 1) :
        (FailedAt(k) /\ pipeline.steps[k].on_failure = "continue")
        => /\ Len(results) = k =>
                /\ idx = k + 1
                /\ pc \in {"loop", "exec", "raised"}
                /\ pc = "raised" =>
                     ExecuteStep(pipeline.steps[k + 1], registry, resolver, environ).kind = "raise"
           /\ Len(results) > k => results[k + 1].step_name = pipeline.steps[k + 1].name
           /\ Returned => Len(results) > k

C2_Witness ==
    /\ Returned
    /\ FailedAt(1)
    /\ pipeline.steps[1].on_failure = "continue"
    /\ Len(results) = 2
    /\ Ran(2)


\* The pipeline with on_failure "skip_remaining" replaced by "abort" on every step.
AbortForSkipRemaining(p) ==
    [p EXCEPT !.steps =
        [i \in 1..Len(p.steps) |->
            IF p.steps[i].on_failure = "skip_remaining"
            THEN [p.steps[i] EXCEPT !.on_failure = "abort"]
            ELSE p.steps[i]]]

\* The (declared position, command text) pairs handed to the Executor so far.
ExecutedCommands ==
    { <<trace[j][2], trace[j][3]>> : j \in { m \in 1..Len(trace) : trace[m][1] = "call" } }

\* The declared positions of the steps whose command has returned, and the
\* return code of the command of such a step.
ReturnedSteps == { trace[j][2] : j \in { m \in 1..Len(trace) : trace[m][1] = "return" } }

ReturnCodeOf(i) ==
    trace[CHOOSE j \in 1..Len(trace) : trace[j][1] = "return" /\ trace[j][2] = i][3]

\* The assignments of a return code to every declared step that agree with the
\* return codes the Executor has produced in this run.
ObservedReturnCodes ==
    { [i \in 1..NumSteps |-> IF i \in ReturnedSteps THEN ReturnCodeOf(i) ELSE f[i]] :
        f \in [(1..NumSteps) \ ReturnedSteps -> ReturnCodes] }

\* C3: a failing step with on_failure "skip_remaining" behaves exactly like
\* "abort": once the run has ended, the same pipeline with "skip_remaining"
\* replaced by "abort", its commands returning the same codes, ends the same
\* way with the same list of StepResults and the same executed commands; no
\* skipped entries are recorded after a step that failed under "skip_remaining".
C3_SkipRemainingIsAbort ==
    pc \in {"returned", "raised"} =>
        /\ \A rcs \in ObservedReturnCodes :
              RunYaml(AbortForSkipRemaining(pipeline), registry, AmbientResolver, environ, rcs)
                = [status |-> IF pc = "raised" THEN "raised" ELSE "returned",
                   results |-> results,
                   calls |-> ExecutedCommands]
        /\ \A k \in 1..NumSteps :
              (FailedAt(k) /\ pipeline.steps[k].on_failure = "skip_remaining")
              => Len(results) = k

C3_Witness ==
    /\ Returned
    /\ NumSteps = 2
    /\ FailedAt(1)
    /\ pipeline.steps[1].on_failure = "skip_remaining"
    /\ Len(results) = 1


----------------------------------------------------------------------------
(* Ordering *)

\* C4: step commands are handed to the Executor in declaration order and one
\* at a time: every call is followed by its own return before the next call
\* starts, and the calls are in increasing declared position.
C4_InOrderOneAtATime ==
    /\ \A j \in 1..Len(trace) :
          IF j % 2 = 1 THEN trace[j][1] = "call"
          ELSE trace[j][1] = "return" /\ trace[j][2] = trace[j - 1][2]
    /\ \A j, m \in 1..Len(trace) :
          (j < m /\ trace[j][1] = "call" /\ trace[m][1] = "call") => trace[j][2] < trace[m][2]
    /\ (pc = "exec") = (Len(trace) % 2 = 1)

C4_Witness ==
    /\ pc = "exec"
    /\ Len(trace) = 3
    /\ trace[1][2] = 1
    /\ trace[3][2] = 2

----------------------------------------------------------------------------
(* Conditions *)

\* The (key, expected) items of a step's `when` list.
Items(step) ==
    UNION { { step.when[c][m] : m \in 1..Len(step.when[c]) } : c \in 1..Len(step.when) }

\* The i-th recorded result counts as succeeded: the step was skipped, or it
\* ran and its command returned 0.
CountsAsSucceeded(i) ==
    results[i].skipped \/ results[i].execution_result[1].returncode = 0

\* Step i has a prev_step clause whose expected outcome does not match the
\* result recorded just before it.
PrevStepMismatch(i) ==
    \/ <<PrevStepKey, SucceededLit>> \in Items(pipeline.steps[i]) /\ ~CountsAsSucceeded(i - 1)
    \/ <<PrevStepKey, FailedLit>> \in Items(pipeline.steps[i]) /\ CountsAsSucceeded(i - 1)

\* C5: a step with a prev_step clause whose expected outcome does not match
\* the immediately preceding StepResult (a skipped one counting as succeeded)
\* is recorded skipped=true, succeeded=true, and its command is never handed
\* to the Executor.
C5_PrevStepMismatchSkips ==
    \A i \in 2..NumSteps :
        (Len(results) >= i - 1 /\ PrevStepMismatch(i))
        => /\ i \notin CalledSteps
           /\ Len(results) >= i => (results[i].skipped /\ results[i].succeeded)

C5_Witness ==
    /\ Len(results) = 2
    /\ results[1].skipped
    /\ <<PrevStepKey, FailedLit>> \in Items(pipeline.steps[2])
    /\ results[2].skipped

\* Step i has a step.<name> clause naming a step with no StepResult recorded
\* before step i.
NamesUnrunStep(i) ==
    \E it \in Items(pipeline.steps[i]) :
        /\ StartsWith(it[1], StepPrefix)
        /\ \A j \in 1..(i - 1) : results[j].step_name # SubSeq(it[1], 6, Len(it[1]))

\* C6 as stated: when a step's step.<name> clause names a step that has not
\* run, the whole run fails; the step is never recorded as skipped with the
\* run going on.
C6_UnrunNamedStepFailsTheRun ==
    \A i \in 1..NumSteps :
        (Len(results) >= i - 1 /\ NamesUnrunStep(i)) => Len(results) < i

\* C6 as the code has it: such a step is recorded skipped=true,
\* succeeded=true, its command is not executed, no error is raised for it and
\* the loop goes on to the next step.
C6_UnrunNamedStepIsSkipped ==
    \A i \in 1..NumSteps :
        (Len(results) >= i - 1 /\ NamesUnrunStep(i))
        => /\ i \notin CalledSteps
           /\ ~(pc = "raised" /\ idx = i)
           /\ Len(results) >= i =>
                (results[i].skipped /\ results[i].succeeded /\ results[i].execution_result = <<>>)
           /\ Len(results) = i => idx = i + 1

C6_Witness ==
    /\ Len(results) = 2
    /\ NamesUnrunStep(1)
    /\ results[1].skipped
    /\ Ran(2)


\* The (key, expected) items of a step that are variable checks.
VarItems(step) ==
    { it \in Items(step) : it[1] # PrevStepKey /\ ~StartsWith(it[1], StepPrefix) }

\* The value of a name for this run, by scope: the pipeline's variables, then
\* the configuration variables, the secrets and the environment the runner was
\* given; a sequence of zero (in no scope) or one value.
ScopeValue(name) ==
    IF name \in DOMAIN pipeline.variables THEN <<pipeline.variables[name]>>
    ELSE IF name \in DOMAIN AmbientResolver.config_vars THEN <<AmbientResolver.config_vars[name]>>
    ELSE IF name \in DOMAIN AmbientResolver.secrets THEN <<AmbientResolver.secrets[name]>>
    ELSE IF name \in DOMAIN environ THEN <<environ[name]>>
    ELSE <<>>

\* A variable item holds: its key resolves to exactly its expected literal.
VarClauseHolds(it) == ScopeValue(it[1]) = <<it[2]>>

\* C7: a clause whose key is neither prev_step nor step.<name> is a
\* variable-equality check.  A step with such a clause that does not hold (the
\* key resolves to another value, or is in no scope) is recorded skipped, its
\* command is not executed and no error leaves run_yaml for it; a step whose
\* clauses are all variable checks that hold is not skipped.
C7_VariableClause ==
    \A i \in 1..NumSteps :
        Len(results) >= i - 1 =>
            /\ (\E it \in VarItems(pipeline.steps[i]) : ~VarClauseHolds(it))
               => /\ i \notin CalledSteps
                  /\ ~(pc = "raised" /\ idx = i)
                  /\ Len(results) >= i => (results[i].skipped /\ results[i].succeeded)
            /\ ( /\ VarItems(pipeline.steps[i]) # {}
                 /\ VarItems(pipeline.steps[i]) = Items(pipeline.steps[i])
                 /\ \A it \in VarItems(pipeline.steps[i]) : VarClauseHolds(it)
                 /\ Len(results) >= i )
               => ~results[i].skipped

C7_Witness ==
    /\ Returned
    /\ Len(results) = 2
    /\ <<VarU, One>> \in Items(pipeline.steps[1])
    /\ ScopeValue(VarU) = <<>>
    /\ results[1].skipped
    /\ <<VarV, One>> \in Items(pipeline.steps[2])
    /\ Ran(2)

\* An item of step i holds against the results recorded before step i.
ClauseHolds(it, i) ==
    IF it[1] = PrevStepKey THEN
        /\ i > 1
        /\ it[2] = SucceededLit => CountsAsSucceeded(i - 1)
        /\ it[2] = FailedLit => ~CountsAsSucceeded(i - 1)
    ELSE IF StartsWith(it[1], StepPrefix) THEN
        \E j \in 1..(i - 1) :
            /\ results[j].step_name = SubSeq(it[1], 6, Len(it[1]))
            /\ \A m \in 1..(j - 1) : results[m].step_name # results[j].step_name
            /\ it[2] = SucceededLit => CountsAsSucceeded(j)
            /\ it[2] = FailedLit => ~CountsAsSucceeded(j)
    ELSE VarClauseHolds(it)

AllClausesHold(i) == \A it \in Items(pipeline.steps[i]) : ClauseHolds(it, i)

\* C8: the clauses of a step are conjunctive: its command is handed to the
\* Executor only if every item of every mapping holds against the results so
\* far, a recorded step is skipped iff some item fails, and after a skip the
\* loop goes on to the next step.
C8_ConditionsAreConjunctive ==
    \A i \in 1..NumSteps :
        Len(results) >= i - 1 =>
            /\ i \in CalledSteps => AllClausesHold(i)
            /\ (pc = "raised" /\ idx = i) => AllClausesHold(i)
            /\ Len(results) >= i =>
                 /\ results[i].skipped = ~AllClausesHold(i)
                 /\ results[i].skipped = (i \notin CalledSteps)
            /\ (Len(results) = i /\ ~AllClausesHold(i)) =>
                 /\ idx = i + 1
                 /\ i < NumSteps => pc \in {"loop", "exec", "raised"}

C8_Witness ==
    /\ Returned
    /\ Len(results) = 2
    /\ FailedAt(1)
    /\ pipeline.steps[2].when = WhenTwoMappings
    /\ ClauseHolds(<<PrevStepKey, FailedLit>>, 2)
    /\ ~ClauseHolds(<<VarV, One>>, 2)
    /\ results[2].skipped

----------------------------------------------------------------------------
(* Results and outcome *)

\* C9: in every StepResult, skipped=true implies succeeded=true and no
\* execution_result; skipped=false implies an execution_result and succeeded
\* equal to (returncode = 0).
C9_StepResultShape ==
    \A i \in 1..Len(results) :
        IF results[i].skipped
        THEN results[i].succeeded /\ results[i].execution_result = <<>>
        ELSE /\ Len(results[i].execution_result) = 1
             /\ results[i].succeeded = (results[i].execution_result[1].returncode = 0)

C9_Witness ==
    /\ Returned
    /\ Len(results) = 2
    /\ results[1].skipped
    /\ Ran(2)
    /\ results[2].execution_result[1].returncode = -9

\* C10: the outcome reported for a run is success iff every recorded
\* StepResult is succeeded or skipped; a run in which a step failed is
\* reported FAILED, also when the step failed under "continue" and every
\* later step succeeded.
C10_OverallOutcome ==
    outcome # "" =>
        /\ outcome \in {"completed successfully", "FAILED"}
        /\ (outcome = "completed successfully")
             = (\A i \in 1..Len(results) : results[i].succeeded \/ results[i].skipped)
        /\ (\E k \in 1..Len(results) : FailedAt(k)) => outcome = "FAILED"

C10_Witness ==
    /\ pc = "reported"
    /\ Len(results) = 2
    /\ FailedAt(1)
    /\ pipeline.steps[1].on_failure = "continue"
    /\ Ran(2)
    /\ results[2].succeeded
    /\ outcome = "FAILED"

----------------------------------------------------------------------------
(* Several run_yaml calls on one PipelineRunner *)

\* The steps of the pipelines run one after the other on one runner: a step
\* that uses ${u}, one that uses ${v}, one whose condition fails on the first
\* iteration, and one without an action.
RunSteps ==
    { PipelineStep(NameA, "continue", <<>>, TextWithU, <<>>),
      PipelineStep(NameA, "abort", <<>>, TextWithV, <<>>),
      PipelineStep(NameB, "continue", <<>>, PlainText, WhenPrevFailed),
      PipelineStep(NameB, "abort", <<>>, <<>>, <<>>) }

RunPipelines ==
    { [variables |-> v, steps |-> st] :
        v \in {EmptyDict, (VarU :> Two), (VarV :> Two)},
        st \in UNION { [1..n -> RunSteps] : n \in 0..MaxSteps } }

InitRuns ==
    /\ pipeline \in RunPipelines
    /\ FreshRunner
    /\ LoaderIdle
    /\ MaskIdle
    /\ ExecutorIdle
    /\ ReplIdle
    /\ AuxIdle

\* The caller invokes run_yaml again on the same PipelineRunner, after the
\* previous call has returned or raised: self._registry, self._executor and
\* self._resolver are what the previous call left in the object.
RunAgain ==
    /\ pc \in {"returned", "raised"}
    /\ runs < MaxRuns
    /\ pipeline' \in RunPipelines
    /\ prior' = prior \cup DOMAIN pipeline.variables
    /\ runs' = runs + 1
    /\ results' = <<>>
    /\ idx' = 0
    /\ pc' = "begin"
    /\ trace' = <<>>
    /\ error' = ""
    /\ UNCHANGED <<registry, environ, resolver, pending, outcome, proc>>
    /\ UNCHANGED beyondRunner

NextRuns ==
    \/ Begin
    \/ SkipStep
    \/ CallExecutor
    \/ RaiseInStep
    \/ ExecutorReturn
    \/ LoopExhausted
    \/ RunAgain

SpecRuns == InitRuns /\ [][NextRuns]_vars

\* The names the runner's own scopes define: the configuration variables and
\* secrets it was constructed with, and the process environment.
AmbientNames ==
    DOMAIN AmbientResolver.config_vars \cup DOMAIN AmbientResolver.secrets \cup DOMAIN environ

\* C11: pipeline variables are merged only for the run that declares them: in
\* a later run_yaml call on the same PipelineRunner, a name that only the
\* `variables` of an earlier call's pipeline defined does not resolve.
C11_VariablesOnlyForTheirRun ==
    (runs > 1 /\ pc # "begin") =>
        \A n \in prior \ (DOMAIN pipeline.variables \cup AmbientNames) :
            Replace(resolver, environ, n) = <<>>

----------------------------------------------------------------------------
(* Timeout of a registered command inside a pipeline *)

\* The registered command the current step refers to, as a sequence of zero or
\* one CommandConfig.
CurCommand ==
    IF CurStep.command = <<>> THEN <<>> ELSE RegistryGet(registry, CurStep.command)

\* C12: a step that refers to a registered command runs under that command's
\* timeout: a process that does not exit by itself is killed when the timeout
\* elapses, Executor.run returns -9 for it, and run_yaml goes on to record the
\* step as failed.
C12_StepRunsUnderCommandTimeout ==
    ( /\ pc = "exec"
      /\ CurCommand # <<>>
      /\ CurCommand[1].timeout # <<>>
      /\ proc.behaviour = "hangs" )
    => /\ proc.timeout = CurCommand[1].timeout
       /\ ExecutorOutcomes(proc) = {-9}

----------------------------------------------------------------------------
(* pipeline.py: PipelineLoader.load_yaml *)

\* dict.get(key, default): a YAML mapping is a function on its keys.
Get(d, key, default) == IF key \in DOMAIN d THEN d[key] ELSE default

UnnamedLit == <<"u", "n", "n", "a", "m", "e", "d">>

\* Lines 152-162: one PipelineStep per entry of `steps`, each field taken with
\* step_data.get; nothing is checked.
LoadStep(step_data) ==
    PipelineStep(Get(step_data, "name", UnnamedLit),
                 Get(step_data, "on_failure", "abort"),
                 Get(step_data, "command", <<>>),
                 Get(step_data, "run", <<>>),
                 Get(step_data, "when", <<>>))

\* load_yaml on what yaml.safe_load made of the file: a YAMLError, a value that
\* is not a mapping, or a mapping.  The title and the description of the
\* YamlPipeline are left out.
LoadYaml(f) ==
    IF f.kind # "mapping"
    THEN [status |-> "ConfigError", pipeline |-> NotLoaded.pipeline]
    ELSE LET step_list == Get(f.data, "steps", <<>>) IN
         [status |-> "loaded",
          pipeline |-> [variables |-> Get(f.data, "variables", EmptyDict),
                        steps |-> [i \in 1..Len(step_list) |-> LoadStep(step_list[i])]]]

\* The entries of `steps` in the files: every subset of the keys of a step.
StepKeys == {"name", "command", "run", "on_failure", "when"}

FullStepData ==
    [name |-> NameA, command |-> CmdC, run |-> PlainText, on_failure |-> "continue",
     when |-> WhenPrevFailed]

StepDatas == { [k \in ks |-> FullStepData[k]] : ks \in SUBSET StepKeys }

MappingFiles ==
    { [kind |-> "mapping", data |-> d] :
        d \in {EmptyDict, "variables" :> (VarV :> Two)}
              \cup { "steps" :> st : st \in UNION { [1..n -> StepDatas] : n \in 0..MaxSteps } } }

YamlFiles ==
    MappingFiles \cup { [kind |-> k, data |-> EmptyDict] : k \in {"yaml_error", "not_mapping"} }

InitLoad ==
    /\ file \in YamlFiles
    /\ loaded = NotLoaded
    /\ RunnerIdle
    /\ MaskIdle
    /\ ExecutorIdle
    /\ ReplIdle
    /\ AuxIdle

Load ==
    /\ loaded.status = "unloaded"
    /\ loaded' = LoadYaml(file)
    /\ UNCHANGED <<file, runnerVars, maskVars, execVars, replVars, auxVars>>

NextLoad == Load

SpecLoad == InitLoad /\ [][NextLoad]_vars

\* The number of action sources of a step: `command`, `run`.
ActionSources(step) ==
    (IF step.command # <<>> THEN 1 ELSE 0) + (IF step.run # <<>> THEN 1 ELSE 0)

\* C13: load_yaml never returns a definition that has a step with no action
\* source or with both: such a file fails at load time with a configuration
\* error, so every step of every loaded definition has exactly one of
\* `command` and `run`.
C13_LoadedStepsHaveOneAction ==
    /\ loaded.status = "loaded" =>
         \A i \in 1..Len(loaded.pipeline.steps) : ActionSources(loaded.pipeline.steps[i]) = 1
    /\ ( /\ loaded.status # "unloaded"
         /\ file.kind = "mapping"
         /\ \E i \in 1..Len(Get(file.data, "steps", <<>>)) :
               {"command", "run"} \cap DOMAIN file.data["steps"][i] = {} )
       => loaded.status = "ConfigError"

----------------------------------------------------------------------------
(* variables.py: SecretStore *)

\* The redaction marker "***".
Marker == <<"*", "*", "*">>

\* `sub in t` of Python strings.
Contains(t, sub) ==
    \E i \in 1..(Len(t) - Len(sub) + 1) : SubSeq(t, i, i + Len(sub) - 1) = sub

\* str.replace(old, new) for a non-empty `old`: the occurrences are found from
\* left to right and do not overlap; `out` is the result for t[1..i-1].
RECURSIVE ReplaceFrom(_, _, _, _, _)
ReplaceFrom(t, old, new, i, out) ==
    IF i > Len(t) THEN out
    ELSE IF i + Len(old) - 1 <= Len(t) /\ SubSeq(t, i, i + Len(old) - 1) = old
         THEN ReplaceFrom(t, old, new, i + Len(old), out \o new)
         ELSE ReplaceFrom(t, old, new, i + 1, Append(out, t[i]))

StrReplace(t, old, new) == ReplaceFrom(t, old, new, 1, <<>>)

\* SecretStore.add: `self._secrets[key] = value`; a new key goes last, a known
\* key keeps its place.
StoreAdd(st, key, value) ==
    IF \E i \in 1..Len(st) : st[i][1] = key
    THEN [i \in 1..Len(st) |-> IF st[i][1] = key THEN <<key, value>> ELSE st[i]]
    ELSE Append(st, <<key, value>>)

\* self._secrets.values(), in insertion order.
Values(st) == [i \in 1..Len(st) |-> st[i][2]]

MaxLenOf(vs) == IF vs = <<>> THEN 0 ELSE CHOOSE l \in { Len(vs[i]) : i \in 1..Len(vs) } :
                                            \A i \in 1..Len(vs) : Len(vs[i]) <= l

\* The values of length l, l-1, .., 0, each group in the order of vs.
RECURSIVE ByLengthFrom(_, _)
ByLengthFrom(vs, l) ==
    IF l < 0 THEN <<>>
    ELSE SelectSeq(vs, LAMBDA v : Len(v) = l) \o ByLengthFrom(vs, l - 1)

\* A faulty order: the values as they were inserted.
InsertionOrder(vs) == vs

\* sorted(values, key=len, reverse=True): longest first; the sort is stable,
\* values of equal length keep their insertion order.
LongestFirst(vs) == ByLengthFrom(vs, MaxLenOf(vs))

\* The loop of mask over the sorted values from the k-th on.
RECURSIVE MaskEach(_, _, _)
MaskEach(vs, k, result) ==
    IF k > Len(vs) THEN result
    ELSE MaskEach(vs, k + 1,
                  IF vs[k] # <<>> THEN StrReplace(result, vs[k], Marker) ELSE result)

\* SecretStore.mask
Mask(st, t) == MaskEach(LongestFirst(Values(st)), 1, t)

\* The inputs: two keys; values that are empty, contained in one another,
\* overlapping, and made of the marker's character; texts over a, b and *.
SecretKeys == { <<"s">>, <<"t">> }

SecretValues ==
    { <<>>, <<"a">>, <<"b">>, <<"a", "a">>, <<"a", "b">>, <<"b", "a">>, <<"*">>, <<"a", "*">> }

TextChars == {"a", "b", "*"}

Texts == UNION { [1..n -> TextChars] : n \in 0..MaxText }

InitMask ==
    /\ store = <<>>
    /\ subject \in Texts
    /\ masked = <<>>
    /\ RunnerIdle
    /\ LoaderIdle
    /\ ExecutorIdle
    /\ ReplIdle
    /\ AuxIdle

\* SecretStore.add(key, value)
AddSecret ==
    /\ masked = <<>>
    /\ \E key \in SecretKeys, value \in SecretValues : store' = StoreAdd(store, key, value)
    /\ UNCHANGED <<subject, masked, runnerVars, loaderVars, execVars, replVars, auxVars>>

\* SecretStore.mask(text)
MaskText ==
    /\ masked = <<>>
    /\ masked' = <<Mask(store, subject)>>
    /\ UNCHANGED <<store, subject, runnerVars, loaderVars, execVars, replVars, auxVars>>

NextMask ==
    \/ AddSecret
    \/ MaskText

SpecMask == InitMask /\ [][NextMask]_vars

\* The stored secret values.
StoredValues == { store[i][2] : i \in 1..Len(store) }

\* C18: for every text that contains an occurrence of a stored (non-empty)
\* secret value, mask returns a text that contains no occurrence of that value
\* and contains the marker.
C18_MaskRemovesEverySecret ==
    masked # <<>> =>
        \A v \in StoredValues \ {<<>>} :
            Contains(subject, v) => ~Contains(masked[1], v) /\ Contains(masked[1], Marker)

\* Two secrets are stored and the value of one is a proper part of the value
\* of the other; LongValue and ShortValue are the two values.
SubstringPair ==
    /\ Len(store) = 2
    /\ \E i, j \in 1..2 :
        /\ store[j][2] # <<>>
        /\ Len(store[j][2]) < Len(store[i][2])
        /\ Contains(store[i][2], store[j][2])

LongValue == IF Len(store[1][2]) > Len(store[2][2]) THEN store[1][2] ELSE store[2][2]
ShortValue == IF Len(store[1][2]) > Len(store[2][2]) THEN store[2][2] ELSE store[1][2]

\* The same two secrets, added in the other order.
OtherOrder == <<store[2], store[1]>>

----------------------------------------------------------------------------
(* executor.py: Executor.run and the two _read_stream threads *)

\* The number of lines a pipe holds before a write to it blocks.
PipeCap == 1

\* Line 72: the return code after a timeout.
TimeoutReturnCode == -9

\* "".join(lines)
RECURSIVE Concat(_)
Concat(lines) == IF lines = <<>> THEN <<>> ELSE Head(lines) \o Concat(Tail(lines))

\* A faulty return code: the timeout is not reported.
ReturnCodeIgnoringTimeout(timed_out, proc_returncode) ==
    IF timed_out THEN 0 ELSE proc_returncode

\* Lines 66 and 72: proc.returncode, or -9 after subprocess.TimeoutExpired.
ReturnCode(timed_out, proc_returncode) ==
    IF timed_out THEN TimeoutReturnCode ELSE proc_returncode

\* A faulty join that returns at once.
JoinedAtOnce(rd) == TRUE

\* Thread.join returns (before its timeout) when the thread has terminated.
Joined(rd) == rd.state = "done"

\* A faulty join, without a timeout: it never gives up.
JoinWithoutTimeout(rd) == FALSE

\* Thread.join(timeout=5) returns after its five seconds when the thread is
\* still running.
JoinTimesOut(rd) == rd.state # "done"

\* Faulty readers: one thread after the other, stderr is read only when
\* stdout has been read to its end.
MayReadInTurn(s, rds) ==
    /\ rds[s].state = "running"
    /\ s = "stderr" => rds["stdout"].state = "done"

\* Lines 51-60: each stream has its own thread, which runs once it is started.
MayRead(s, rds) == rds[s].state = "running"

\* The lines a child writes, and what it writes where: its script.
ChildLines == { <<"a", "\n">>, <<"a", "a", "a", "*", "\n">> }

Scripts == UNION { [1..n -> Streams \X ChildLines] : n \in 0..MaxWrites }

\* The secrets of the Executor: none, one whose value spans two lines, one
\* whose value ends with the marker's character.
ExecutorStores ==
    { <<>>,
      << << <<"s">>, <<"a", "\n", "a">> >> >>,
      << << <<"s">>, <<"a", "*">> >> >> }

InitExec ==
    /\ xmain \in { [pc |-> "idle", timeout |-> t, timed_out |-> FALSE, expired |-> {}] :
                     t \in {<<>>, <<1>>} }
    /\ child \in { [state |-> "none", script |-> sc, returncode |-> 0] : sc \in Scripts }
    /\ held \in BOOLEAN
    /\ pipe = [s \in Streams |-> <<>>]
    /\ reader = [s \in Streams |-> [state |-> "idle", lines |-> <<>>]]
    /\ xres = NoResult
    /\ store \in ExecutorStores
    /\ subject = <<>>
    /\ masked = <<>>
    /\ RunnerIdle
    /\ LoaderIdle
    /\ ReplIdle
    /\ AuxIdle

beyondExecutor == <<runnerVars, loaderVars, maskVars, replVars, auxVars>>

\* Lines 42-60: Popen, the two threads are created and started.
StartProcess ==
    /\ xmain.pc = "idle"
    /\ xmain' = [xmain EXCEPT !.pc = "wait"]
    /\ child' = [child EXCEPT !.state = "running"]
    /\ reader' = [s \in Streams |-> [state |-> "running", lines |-> <<>>]]
    /\ UNCHANGED <<held, pipe, xres, beyondExecutor>>

\* The child writes its next line; the write blocks while the pipe is full.
ChildWrite ==
    /\ child.state = "running"
    /\ child.script # <<>>
    /\ LET s == Head(child.script)[1]
           line == Head(child.script)[2] IN
        /\ Len(pipe[s]) < PipeCap
        /\ pipe' = [pipe EXCEPT ![s] = Append(@, line)]
    /\ child' = [child EXCEPT !.script = Tail(@)]
    /\ UNCHANGED <<xmain, held, reader, xres, beyondExecutor>>

\* The child has written everything and exits.
ChildExit ==
    /\ child.state = "running"
    /\ child.script = <<>>
    /\ \E rc \in {0, 1} : child' = [child EXCEPT !.state = "exited", !.returncode = rc]
    /\ UNCHANGED <<xmain, held, pipe, reader, xres, beyondExecutor>>

\* The descendant that holds the pipes open exits (it need not).
DescendantExit ==
    /\ held
    /\ child.state # "none"
    /\ held' = FALSE
    /\ UNCHANGED <<xmain, child, pipe, reader, xres, beyondExecutor>>

\* _read_stream, lines 91-93: the next line is read, masked and appended.
ReaderRead(s) ==
    /\ MayRead(s, reader)
    /\ pipe[s] # <<>>
    /\ reader' = [reader EXCEPT ![s].lines = Append(@, Mask(store, Head(pipe[s])))]
    /\ pipe' = [pipe EXCEPT ![s] = Tail(@)]
    /\ UNCHANGED <<xmain, child, held, xres, beyondExecutor>>

\* _read_stream, lines 91 and 96: end of stream, when the pipe is empty and
\* no process holds its write end; the thread terminates.
ReaderEnd(s) ==
    /\ MayRead(s, reader)
    /\ pipe[s] = <<>>
    /\ child.state \in {"exited", "killed"}
    /\ ~held
    /\ reader' = [reader EXCEPT ![s].state = "done"]
    /\ UNCHANGED <<xmain, child, held, pipe, xres, beyondExecutor>>

\* Line 62: proc.wait returns, the child has exited.
WaitReturns ==
    /\ xmain.pc = "wait"
    /\ child.state = "exited"
    /\ xmain' = [xmain EXCEPT !.pc = "join_stdout"]
    /\ UNCHANGED <<child, held, pipe, reader, xres, beyondExecutor>>

\* Lines 62 and 67-69: the timeout elapses with the child still running;
\* proc.kill() and proc.wait().
TimeoutExpires ==
    /\ xmain.pc = "wait"
    /\ xmain.timeout # <<>>
    /\ child.state = "running"
    /\ child' = [child EXCEPT !.state = "killed", !.returncode = TimeoutReturnCode]
    /\ xmain' = [xmain EXCEPT !.pc = "join_stdout", !.timed_out = TRUE]
    /\ UNCHANGED <<held, pipe, reader, xres, beyondExecutor>>

\* The thread that the caller is joining.
JoinStream == IF xmain.pc = "join_stdout" THEN "stdout" ELSE "stderr"
AfterJoin == IF xmain.pc = "join_stdout" THEN "join_stderr" ELSE "collect"

\* Lines 63-64 and 70-71: join returns because the thread has terminated.
JoinReturns ==
    /\ xmain.pc \in {"join_stdout", "join_stderr"}
    /\ Joined(reader[JoinStream])
    /\ xmain' = [xmain EXCEPT !.pc = AfterJoin]
    /\ UNCHANGED <<child, held, pipe, reader, xres, beyondExecutor>>

\* Lines 63-64 and 70-71: join(timeout=5) gives up on a thread still running.
JoinExpires ==
    /\ xmain.pc \in {"join_stdout", "join_stderr"}
    /\ JoinTimesOut(reader[JoinStream])
    /\ xmain' = [xmain EXCEPT !.pc = AfterJoin, !.expired = @ \cup {JoinStream}]
    /\ UNCHANGED <<child, held, pipe, reader, xres, beyondExecutor>>

\* Lines 66, 72 and 76-85: the return code, the joined and masked texts, return.
Collect ==
    /\ xmain.pc = "collect"
    /\ xres' = [returncode |-> ReturnCode(xmain.timed_out, child.returncode),
                stdout |-> Mask(store, Concat(reader["stdout"].lines)),
                stderr |-> Mask(store, Concat(reader["stderr"].lines))]
    /\ xmain' = [xmain EXCEPT !.pc = "done"]
    /\ UNCHANGED <<child, held, pipe, reader, beyondExecutor>>

NextExec ==
    \/ StartProcess
    \/ ChildWrite
    \/ ChildExit
    \/ DescendantExit
    \/ \E s \in Streams : ReaderRead(s)
    \/ \E s \in Streams : ReaderEnd(s)
    \/ WaitReturns
    \/ TimeoutExpires
    \/ JoinReturns
    \/ JoinExpires
    \/ Collect

SpecExec == InitExec /\ [][NextExec]_vars

\* What a running system does sooner or later: every thread and the child are
\* scheduled, and a join gives up when its five seconds are over.  Left out
\* are the descendant's exit and the expiry of the caller's timeout, which
\* need not happen.
Scheduled ==
    \/ StartProcess
    \/ ChildWrite
    \/ ChildExit
    \/ \E s \in Streams : ReaderRead(s)
    \/ \E s \in Streams : ReaderEnd(s)
    \/ WaitReturns
    \/ JoinReturns
    \/ JoinExpires
    \/ Collect

FairSpecExec == SpecExec /\ WF_vars(Scheduled)

\* The caller is about to join the lines into the result texts (line 76).
Collecting == xmain.pc = "collect"

C15_TimeoutYieldsMinusNine ==
    /\ xmain.timed_out => xmain.timeout # <<>> /\ child.state = "killed"
    /\ xmain.pc = "done" =>
         IF xmain.timed_out
         THEN xres.returncode = -9 /\ ~Succeeded(xres)
         ELSE child.state = "exited" /\ xres.returncode = child.returncode

C15_Witness ==
    /\ xmain.pc = "done"
    /\ xmain.timed_out
    /\ child.script # <<>>

\* The child is blocked in a write to a full pipe.
ChildBlocked ==
    /\ child.state = "running"
    /\ child.script # <<>>
    /\ Len(pipe[Head(child.script)[1]]) >= PipeCap

\* C16: with bounded pipes and both readers scheduled, a child that writes to
\* stdout and stderr in any interleaving and then exits is not blocked for
\* ever on a full pipe, and Executor.run, once it has started the process,
\* eventually returns.
C16_RunEventuallyReturns == (xmain.pc = "wait") ~> (xmain.pc = "done")

\* The child is blocked on a full stderr pipe with more to write, and no
\* timeout will end the wait.
C16_Witness ==
    /\ ChildBlocked
    /\ Head(child.script)[1] = "stderr"
    /\ xmain.timeout = <<>>
    /\ xmain.pc = "wait"

\* C17: the stdout and stderr of the returned ExecutionResult contain no
\* occurrence of a stored non-empty secret value, whatever the child wrote,
\* secrets that span a line boundary of the output included.
C17_NoSecretInResult ==
    xmain.pc = "done" =>
        \A v \in StoredValues \ {<<>>} :
            ~Contains(xres.stdout, v) /\ ~Contains(xres.stderr, v)

\* The child itself is gone: it has exited, or it was killed on the timeout.
ChildGone == child.state \in {"exited", "killed"}

\* C39: once the child itself has exited or has been killed on the timeout,
\* Executor.run returns, also when a descendant keeps the pipes open for ever:
\* the caller's wait for a reader that has not reached the end of its stream
\* can always give up.
C39_ReturnsOnceChildIsGone ==
    /\ ChildGone ~> (xmain.pc = "done")
    /\ []((xmain.pc \in {"join_stdout", "join_stderr"} /\ ~Joined(reader[JoinStream]))
           => ENABLED JoinExpires)
    /\ []((xmain.pc = "done" /\ held) => xmain.expired = Streams)

\* run has returned the child's own exit code while the descendant still holds
\* the pipes and both readers are still running.
C39_Witness ==
    /\ xmain.pc = "done"
    /\ held
    /\ child.state = "exited"
    /\ ~xmain.timed_out
    /\ xmain.expired = Streams
    /\ \A s \in Streams : reader[s].state = "running"

----------------------------------------------------------------------------
(* app.py: executing commands from the REPL and replaying them with `last` *)

\* An ExecutionResult with its captured texts (output.py lines 8-17; duration
\* and timestamp are left out).
CapturedResult(command, returncode, stdout, stderr) ==
    [command |-> command, returncode |-> returncode, stdout |-> stdout, stderr |-> stderr]

\* The text Executor.run captures from the lines of one stream: every line is
\* masked by its reader, the joined text is masked again (executor.py lines
\* 76-77 and 92-93).
CapturedText(st, lines) ==
    Mask(st, Concat([i \in 1..Len(lines) |-> Mask(st, lines[i])]))

\* What Executor.run(command) returns for a child that writes out_lines and
\* err_lines and ends with returncode.
ExecutorRun(st, command, returncode, out_lines, err_lines) ==
    CapturedResult(command, returncode, CapturedText(st, out_lines), CapturedText(st, err_lines))

\* A faulty add: a full buffer keeps what it has and drops the new result.
BufferAddKeepsOldest(buf, result, max_size) ==
    IF Len(buf) >= max_size THEN buf ELSE Append(buf, result)

\* OutputBuffer.add on deque(maxlen=max_size): the oldest entry is dropped
\* when the deque is full; a deque of maxlen 0 stays empty.
BufferAdd(buf, result, max_size) ==
    IF max_size = 0 THEN buf
    ELSE IF Len(buf) >= max_size THEN Append(Tail(buf), result)
    ELSE Append(buf, result)

\* A faulty last: n counts from the oldest retained result.
BufferLastFromOldest(buf, n) ==
    IF n < 0 \/ n >= Len(buf) THEN <<>> ELSE <<buf[n + 1]>>

\* OutputBuffer.last(n): zero or one result.
BufferLast(buf, n) ==
    LET index == Len(buf) - 1 - n IN
    IF index < 0 \/ index >= Len(buf) THEN <<>> ELSE <<buf[index + 1]>>

\* str(returncode)
ReturnCodeText(returncode) ==
    IF returncode = 0 THEN <<"0">> ELSE IF returncode = 1 THEN <<"1">> ELSE <<"-", "9">>

\* f"--- Replay: {result.command} (exit {result.returncode}) ---"
ReplayHeader(result) ==
    <<"-", "-", "-", " ", "R", "e", "p", "l", "a", "y", ":", " ">> \o result.command
      \o <<" ", "(", "e", "x", "i", "t", " ">> \o ReturnCodeText(result.returncode)
      \o <<")", " ", "-", "-", "-">>

NoOutputLit == <<"N", "o", " ", "o", "u", "t", "p", "u", "t">>

\* _handle_last for a parsed n: what it prints.
Replay(buf, n) ==
    LET found == BufferLast(buf, n) IN
    IF found = <<>> THEN <<NoOutputLit>>
    ELSE <<ReplayHeader(found[1])>>
           \o (IF found[1].stdout # <<>> THEN <<found[1].stdout>> ELSE <<>>)
           \o (IF found[1].stderr # <<>> THEN <<found[1].stderr>> ELSE <<>>)

\* The secrets as the mapping the resolver reads (SecretStore.get).
StoreDict(st) ==
    [k \in { st[i][1] : i \in 1..Len(st) } |->
        st[CHOOSE i \in 1..Len(st) : st[i][1] = k][2]]

\* _make_resolver(): the configuration variables, no pipeline variables, the
\* SecretStore.
MakeResolver(st) ==
    [config_vars |-> AmbientResolver.config_vars, pipeline_vars |-> EmptyDict,
     secrets |-> StoreDict(st)]

\* The secret of the session, or none.
SecretS == <<"s">>
SecretValue == <<"a", "b">>
ReplStores == { <<>>, << <<SecretS, SecretValue>> >> }

\* Two registered commands: c passes the secret as ${s}, d uses no variable.
ReplRegistry ==
    [commands |-> (CmdC :> [command |-> <<"e", "$", "{", "s", "}">>, timeout |-> <<1>>,
                            env |-> EmptyDict]
                   @@ CmdD :> [command |-> PlainText, timeout |-> <<>>, env |-> EmptyDict]),
     alias_map |-> EmptyDict]

\* What the user types after `!`, and the lines a child may write to a stream:
\* nothing, or a line holding the secret's value.
ShellTexts == { <<"l", "s">> }
ChildOutputs == { <<>>, << SecretValue \o <<"\n">> >> }
ChildEndings ==
    { <<rc, out, err>> \in {0, 1} \X ChildOutputs \X ChildOutputs : out = <<>> \/ err = <<>> }

InitRepl ==
    /\ store \in ReplStores
    /\ subject = <<>>
    /\ masked = <<>>
    /\ buffer = <<>>
    /\ printed = <<>>
    /\ RunnerIdle
    /\ LoaderIdle
    /\ ExecutorIdle
    /\ AuxIdle

beyondRepl == <<runnerVars, loaderVars, maskVars, execVars, auxVars>>

\* _execute_config_command, lines 444-459, for a registered command without
\* `confirm`: resolve the template, run it, add the result to the buffer.
ExecuteConfigCommand ==
    /\ \E name \in DOMAIN ReplRegistry.commands, e \in ChildEndings :
        LET cmd == RegistryGet(ReplRegistry, name)[1]
            resolved == Resolve(MakeResolver(store), environ, cmd.command) IN
        /\ resolved.ok
        /\ buffer' = BufferAdd(buffer,
                               ExecutorRun(store, resolved.text, e[1], e[2], e[3]), BufferSize)
    /\ UNCHANGED <<printed, beyondRepl>>

\* _execute_shell, lines 466-467: a shell escape.
ExecuteShell ==
    /\ \E command \in ShellTexts, e \in ChildEndings :
        buffer' = BufferAdd(buffer, ExecutorRun(store, command, e[1], e[2], e[3]), BufferSize)
    /\ UNCHANGED <<printed, beyondRepl>>

\* _handle_last, lines 390-406, for an argument that parses as an integer.
HandleLast ==
    /\ \E n \in -1..BufferSize : printed' = Replay(buffer, n)
    /\ UNCHANGED <<buffer, beyondRepl>>

NextRepl ==
    \/ ExecuteConfigCommand
    \/ ExecuteShell
    \/ HandleLast

SpecRepl == InitRepl /\ [][NextRepl]_vars

\* C20: after any sequence of registered-command executions and shell
\* escapes, nothing that `last` prints (the header with the stored command
\* text, the stdout, the stderr) contains a stored secret value, also when the
\* command's template passed the secret as ${name}.
C20_ReplayShowsNoSecret ==
    \A k \in 1..Len(printed) :
        \A v \in StoredValues \ {<<>>} : ~Contains(printed[k], v)
----------------------------------------------------------------------------
(* variables.py: VariableResolver.resolve on its own.                      *)
(* SpecResolve: one resolver whose four scopes hold or do not hold the     *)
(* names a and b, and one call of resolve on a text made of the pieces     *)
(* below.                                                                  *)

\* The longest text is made of this many pieces.
MaxTokens == 3

\* The four scopes in the order _replace consults them (variables.py 72-81).
Precedence == <<"pipeline_vars", "config_vars", "secrets", "environ">>

\* A scope's value for the name a: a different one in every scope.
ValueIn ==
    [sc \in {"pipeline_vars", "config_vars", "secrets", "environ"} |->
        CASE sc = "pipeline_vars" -> <<"p">>
          [] sc = "config_vars" -> <<"c">>
          [] sc = "secrets" -> <<"s">>
          [] OTHER -> <<"e">>]

\* The resolvers under test: a is held by any subset of the scopes; b is a
\* secret whose value is the empty string, or is held nowhere.
ResolversUnderTest ==
    { [sc \in {"pipeline_vars", "config_vars", "secrets", "environ"} |->
          (IF sc \in holders THEN NameA :> ValueIn[sc] ELSE EmptyDict)
          @@ (IF sc = "secrets" /\ b_secret THEN NameB :> <<>> ELSE EmptyDict)] :
      holders \in SUBSET {"pipeline_vars", "config_vars", "secrets", "environ"},
      b_secret \in BOOLEAN }

\* The pieces of a text: two placeholders, a lone dollar, lone braces, an
\* opened and never closed placeholder, a placeholder without a name, a letter.
Tokens ==
    { <<"$", "{", "a", "}">>, <<"$", "{", "b", "}">>, <<"$">>, <<"{">>, <<"}">>,
      <<"$", "{">>, <<"$", "{", "}">>, <<"a">> }

TokenLists == UNION { [1..n -> Tokens] : n \in 0..MaxTokens }

Templates == { Concat(ts) : ts \in TokenLists }

InitResolve ==
    /\ vr \in ResolversUnderTest
    /\ template \in Templates
    /\ answer = NotResolved
    /\ RunnerIdle
    /\ LoaderIdle
    /\ MaskIdle
    /\ ExecutorIdle
    /\ ReplIdle
    /\ ForkIdle
    /\ HistoryIdle
    /\ DispatchIdle

beyondResolve ==
    <<runnerVars, loaderVars, maskVars, execVars, replVars, forkVars, historyVars, dispatchVars>>

\* resolver.resolve(template)
ResolveText ==
    /\ answer.status = "none"
    /\ answer' = [status |-> "done"] @@ Resolve(vr, vr.environ, template)
    /\ UNCHANGED <<vr, template, beyondResolve>>

NextResolve == ResolveText

SpecResolve == InitResolve /\ [][NextResolve]_vars

\* The text ${name}.
PlaceholderOf(name) == <<"$", "{">> \o name \o <<"}">>

\* The positions in Precedence of the scopes that hold the name.
Holders(name) == { i \in 1..Len(Precedence) : name \in DOMAIN vr[Precedence[i]] }

\* The scope of highest precedence among those that hold the name.
HighestHolder(name) ==
    Precedence[CHOOSE i \in Holders(name) : \A j \in Holders(name) : i <= j]

\* C21: resolve("${name}"), for a name that some scope holds, returns the value
\* of the scope of highest precedence among those holding it (pipeline, then
\* config, then secrets, then environment); a name held by exactly one scope
\* resolves to that scope's value.
C21_HighestPrecedenceScopeWins ==
    \A name \in {NameA, NameB} :
        (/\ answer.status = "done"
         /\ template = PlaceholderOf(name)
         /\ Holders(name) # {})
        => /\ answer.ok
           /\ answer.text = vr[HighestHolder(name)][name]
           /\ \A i \in 1..Len(Precedence) :
                Holders(name) = {i} => answer.text = vr[Precedence[i]][name]

\* ${a} resolved to the configured value although the secrets and the
\* environment hold a too.
C21_Witness ==
    /\ answer.status = "done"
    /\ template = PlaceholderOf(NameA)
    /\ Holders(NameA) = {2, 3, 4}
    /\ answer.ok
    /\ answer.text = <<"c">>

\* The text has a placeholder: "${", one or more characters other than "}",
\* then "}".
HasPlaceholder(t) ==
    \E i \in 1..Len(t), j \in 1..Len(t) :
        /\ i + 3 <= j
        /\ t[i] = "$"
        /\ t[i + 1] = "{"
        /\ t[j] = "}"
        /\ \A k \in (i + 2)..(j - 1) : t[k] # "}"

\* C22: resolve returns a text without a placeholder unchanged, whatever the
\* scopes hold; and a "$" at the head of a text that is not followed by "{" is
\* the head of the result.
C22_IdentityWithoutPlaceholder ==
    answer.status = "done"
    => /\ ~HasPlaceholder(template) => (answer.ok /\ answer.text = template)
       /\ (/\ answer.ok
           /\ Len(template) >= 2
           /\ template[1] = "$"
           /\ template[2] # "{")
          => (Len(answer.text) >= 1 /\ answer.text[1] = "$")

\* "${}$" has dollars and braces and no placeholder, and comes back unchanged.
C22_Witness ==
    /\ answer.status = "done"
    /\ template = <<"$", "{", "}", "$">>
    /\ answer.ok
    /\ answer.text = template

\* The names of the placeholders of the text from position i on, in order: the
\* leftmost non-overlapping matches of VAR_PATTERN, as re.sub finds them.
RECURSIVE PlaceholderNames(_, _)
PlaceholderNames(t, i) ==
    IF i > Len(t) THEN <<>>
    ELSE LET m == MatchEnd(t, i) IN
         IF m = 0 THEN PlaceholderNames(t, i + 1)
         ELSE <<SubSeq(t, i + 2, m - 1)>> \o PlaceholderNames(t, m + 1)

\* The name is held by none of the four scopes.
Unheld(name) == Holders(name) = {}

\* C23: when a placeholder of the text names something no scope holds, resolve
\* raises the error that names such an identifier (the first one in the text)
\* and no text is returned, although other placeholders could be resolved.
C23_UnresolvedNameFailsWholeCall ==
    LET names == PlaceholderNames(template, 1)
        missing == { k \in 1..Len(names) : Unheld(names[k]) }
    IN (answer.status = "done" /\ missing # {})
       => /\ ~answer.ok
          /\ answer.text = names[CHOOSE k \in missing : \A l \in missing : k <= l]

\* "${a}${b}" with a held and b not: the call failed naming b.
C23_Witness ==
    /\ answer.status = "done"
    /\ template = PlaceholderOf(NameA) \o PlaceholderOf(NameB)
    /\ ~Unheld(NameA)
    /\ Unheld(NameB)
    /\ ~answer.ok
    /\ answer.text = NameB


----------------------------------------------------------------------------
(* app.py: ReplApp._fork_pipeline; pipeline.py: PipelineRunner.fork_shell. *)
(* SpecFork: the REPL handles `pipeline fork <name>` commands one after    *)
(* the other; every accepted one is a fork_shell call, whose child, the    *)
(* child's descendants and watcher thread run on after the call returned,  *)
(* beside those of the earlier calls.                                      *)
(*                                                                         *)
(* What a log file holds is the sequence of the blocks written to it.  The *)
(* file object of fork_shell is buffered: the header reaches the file at   *)
(* the flush of line 263, the PID/Log lines at the flush of line 285, the  *)
(* trailer at the close of line 300; each is one block.  The child writes  *)
(* through the descriptor it inherits, and so does a process the child     *)
(* leaves behind.                                                          *)

\* The number of `pipeline fork` commands handled.
MaxRequests == 2

\* The number of blocks of output a child, and a descendant, writes at most.
MaxOutput == 1

\* PipelineLoader.discover: the pipelines of the workflows directory, by name,
\* with the type their file extension gives them.
Discovered == ("s" :> "shell") @@ ("y" :> "yaml") @@ ("p" :> "python")

\* What follows `pipeline fork`: nothing, a discovered name, an unknown name.
RequestNames == {"", "s", "y", "p", "n"}

\* A faulty type test: only declarative pipelines are turned away.
ForkableUnlessYaml(pipeline_type) == pipeline_type # "yaml"

\* app.py line 273: the pipeline types _fork_pipeline hands to fork_shell.
Forkable(pipeline_type) == pipeline_type = "shell"

\* The values uuid.uuid4() returns: one that no earlier call returned.
Uuids == 1..MaxRequests

UsedUuids == { forks[k].fork_id : k \in 1..Len(forks) }

\* The exit codes of a forked script.
ForkExitCodes == {0, 42}

\* A faulty log path: the file is named after the script.
LogPathByStem(fork_id, path) == <<"stem", path>>

\* log_dir / f"{fork_id}.log"
LogPath(fork_id, path) == <<"id", fork_id>>

\* fork_shell(path, log_dir) has been entered.
NewCall(path) ==
    [pc |-> "start", path |-> path, fork_id |-> 0, log_path |-> <<>>, handle |-> "none",
     child |-> [state |-> "none", written |-> 0, returncode |-> 0],
     desc |-> [state |-> "none", written |-> 0],
     watcher |-> "none"]

\* One write that reached a log file: who wrote it (the call the writer
\* belongs to) and what it is; code is the exit code of a trailer, or the
\* number that a line "Exit code: <n>" printed by the script shows.
Block(k, what, code) == [fork |-> k, what |-> what, code |-> code]

\* The file at log_path after block was written through a descriptor on it.
WriteLog(files, log_path, block) == [files EXCEPT ![log_path] = Append(@, block)]

\* open(log_path, "w"): the file is created, or emptied when it exists.
OpenForWriting(files, log_path) == (log_path :> <<>>) @@ files

\* The main thread is inside no fork_shell call.
NoCallInProgress == \A k \in 1..Len(forks) : forks[k].pc \in {"returned", "failed"}

\* The `pipeline fork` commands handled or being handled.
Requests == Len(fout) + Cardinality({ k \in 1..Len(forks) : forks[k].pc # "returned" })

InitFork ==
    /\ ForkIdle
    /\ RunnerIdle
    /\ LoaderIdle
    /\ MaskIdle
    /\ ExecutorIdle
    /\ ReplIdle
    /\ ResolveIdle
    /\ HistoryIdle
    /\ DispatchIdle

beyondFork ==
    <<runnerVars, loaderVars, maskVars, execVars, replVars, resolveVars, historyVars,
      dispatchVars>>

\* _fork_pipeline(name) up to the call of fork_shell (app.py 261-285).
ForkPipeline(name) ==
    /\ launcher
    /\ NoCallInProgress
    /\ Requests < MaxRequests
    /\ IF name = ""
       THEN /\ fout' = Append(fout, [name |-> name, msg |-> "usage", arg |-> <<>>])
            /\ UNCHANGED forks
       ELSE IF name \notin DOMAIN Discovered
       THEN /\ fout' = Append(fout, [name |-> name, msg |-> "not found", arg |-> <<>>])
            /\ UNCHANGED forks
       ELSE IF ~Forkable(Discovered[name])
       THEN /\ fout' = Append(fout, [name |-> name, msg |-> "unsupported",
                                     arg |-> <<Discovered[name]>>])
            /\ UNCHANGED forks
       ELSE /\ forks' = Append(forks, NewCall(name))
            /\ UNCHANGED fout
    /\ UNCHANGED <<logs, launcher, beyondFork>>

\* Lines 252-254: the identity, the path, and open() succeeding.
OpenLog(k) ==
    /\ forks[k].pc = "start"
    /\ \E id \in Uuids \ UsedUuids :
        LET log_path == LogPath(id, forks[k].path) IN
        /\ forks' = [forks EXCEPT ![k].pc = "opened", ![k].fork_id = id,
                                   ![k].log_path = log_path, ![k].handle = "open"]
        /\ logs' = OpenForWriting(logs, log_path)
    /\ UNCHANGED <<fout, launcher, beyondFork>>

\* Line 254: open() raises OSError, which leaves fork_shell.
OpenFails(k) ==
    /\ forks[k].pc = "start"
    /\ forks' = [forks EXCEPT ![k].pc = "failed"]
    /\ UNCHANGED <<logs, fout, launcher, beyondFork>>

\* Lines 256-263: the header block, written and flushed.
WriteHeader(k) ==
    /\ forks[k].pc = "opened"
    /\ logs' = WriteLog(logs, forks[k].log_path, Block(k, "header", 0))
    /\ forks' = [forks EXCEPT ![k].pc = "header"]
    /\ UNCHANGED <<fout, launcher, beyondFork>>

\* A faulty order: Popen may be reached with the header not written.
PopenReadyUnflushed(c) == c.pc \in {"opened", "header"}

\* Line 268 is reached after the flush of line 263.
PopenReady(c) == c.pc = "header"

\* A faulty handler: the file stays open when Popen raises.
KeptOpenAfterPopenError(c) == [c EXCEPT !.pc = "failed"]

\* Lines 275-277: except OSError: log_file.close(); raise.
AfterPopenError(c) == [c EXCEPT !.pc = "failed", !.handle = "closed"]

\* Lines 268-274: Popen succeeds; the script may leave a process behind that
\* holds the descriptor of the log file.
Popen(k) ==
    /\ PopenReady(forks[k])
    /\ \E d \in {"none", "running"} :
        forks' = [forks EXCEPT ![k].pc = "launched", ![k].child.state = "running",
                               ![k].desc.state = d]
    /\ UNCHANGED <<logs, fout, launcher, beyondFork>>

\* Lines 268-277: Popen raises OSError.
PopenFails(k) ==
    /\ PopenReady(forks[k])
    /\ forks' = [forks EXCEPT ![k] = AfterPopenError(@)]
    /\ UNCHANGED <<logs, fout, launcher, beyondFork>>

\* Lines 279-285: the PID and Log lines, written and flushed.
WritePid(k) ==
    /\ forks[k].pc = "launched"
    /\ logs' = WriteLog(logs, forks[k].log_path, Block(k, "pid", 0))
    /\ forks' = [forks EXCEPT ![k].pc = "pid"]
    /\ UNCHANGED <<fout, launcher, beyondFork>>

\* Lines 302-303: the daemon thread is started.
StartWatcher(k) ==
    /\ forks[k].pc = "pid"
    /\ forks' = [forks EXCEPT ![k].pc = "started", ![k].watcher = "waiting"]
    /\ UNCHANGED <<logs, fout, launcher, beyondFork>>

\* Line 305, and app.py line 286.
ForkReturns(k) ==
    /\ forks[k].pc = "started"
    /\ forks' = [forks EXCEPT ![k].pc = "returned"]
    /\ fout' = Append(fout, [name |-> forks[k].path, msg |-> "forked",
                             arg |-> <<forks[k].log_path>>])
    /\ UNCHANGED <<logs, launcher, beyondFork>>

\* What a script prints: an ordinary line (0), or the line "Exit code: 7" (7).
ChildPrints == {0, 7}

\* The script writes the line to its stdout or stderr, both the log file.
ChildWrites(k, shown) ==
    /\ forks[k].child.state = "running"
    /\ forks[k].child.written < MaxOutput
    /\ logs' = WriteLog(logs, forks[k].log_path, Block(k, "output", shown))
    /\ forks' = [forks EXCEPT ![k].child.written = @ + 1]
    /\ UNCHANGED <<fout, launcher, beyondFork>>

ChildExits(k) ==
    /\ forks[k].child.state = "running"
    /\ \E c \in ForkExitCodes :
        forks' = [forks EXCEPT ![k].child.state = "exited", ![k].child.returncode = c]
    /\ UNCHANGED <<logs, fout, launcher, beyondFork>>

\* A process the script started writes to the descriptor it inherited.
DescendantWrites(k) ==
    /\ forks[k].desc.state = "running"
    /\ forks[k].desc.written < MaxOutput
    /\ logs' = WriteLog(logs, forks[k].log_path, Block(k, "descendant", 0))
    /\ forks' = [forks EXCEPT ![k].desc.written = @ + 1]
    /\ UNCHANGED <<fout, launcher, beyondFork>>

DescendantExits(k) ==
    /\ forks[k].desc.state = "running"
    /\ forks' = [forks EXCEPT ![k].desc.state = "exited"]
    /\ UNCHANGED <<logs, fout, launcher, beyondFork>>

\* A faulty wait: the watcher also waits for what the script left behind.
WaitReturnsAfterDescendants(c) == c.child.state = "exited" /\ c.desc.state # "running"

\* Line 290: proc.wait() returns once the child itself has exited.
WaitReturned(c) == c.child.state = "exited"

\* _wait_and_write_trailer (lines 289-300): proc.wait() has returned, the
\* trailer is written and reaches the file when the file is closed.
WatcherTrailer(k) ==
    /\ launcher
    /\ forks[k].watcher = "waiting"
    /\ WaitReturned(forks[k])
    /\ logs' = WriteLog(logs, forks[k].log_path,
                        Block(k, "trailer", forks[k].child.returncode))
    /\ forks' = [forks EXCEPT ![k].watcher = "done", ![k].handle = "closed"]
    /\ UNCHANGED <<fout, launcher, beyondFork>>

\* The REPL ends between two commands: its daemon threads end with it (line
\* 302, daemon=True) and its descriptors are closed; the children run on.
LauncherExits ==
    /\ launcher
    /\ NoCallInProgress
    /\ launcher' = FALSE
    /\ forks' = [k \in 1..Len(forks) |->
                   [forks[k] EXCEPT
                      !.watcher = IF @ = "waiting" THEN "dead" ELSE @,
                      !.handle = IF @ = "open" THEN "closed" ELSE @]]
    /\ UNCHANGED <<logs, fout, beyondFork>>

NextFork ==
    \/ \E name \in RequestNames : ForkPipeline(name)
    \/ \E k \in 1..Len(forks) : OpenLog(k)
    \/ \E k \in 1..Len(forks) : OpenFails(k)
    \/ \E k \in 1..Len(forks) : WriteHeader(k)
    \/ \E k \in 1..Len(forks) : Popen(k)
    \/ \E k \in 1..Len(forks) : PopenFails(k)
    \/ \E k \in 1..Len(forks) : WritePid(k)
    \/ \E k \in 1..Len(forks) : StartWatcher(k)
    \/ \E k \in 1..Len(forks) : ForkReturns(k)
    \/ \E k \in 1..Len(forks) : ChildWrites(k, 0)
    \/ \E k \in 1..Len(forks) : ChildExits(k)
    \/ \E k \in 1..Len(forks) : DescendantWrites(k)
    \/ \E k \in 1..Len(forks) : DescendantExits(k)
    \/ \E k \in 1..Len(forks) : WatcherTrailer(k)
    \/ LauncherExits

SpecFork == InitFork /\ [][NextFork]_vars

\* The scheduler lets the main thread go on inside fork_shell and lets every
\* watcher thread run.
FairSpecFork ==
    /\ SpecFork
    /\ \A k \in 1..MaxRequests :
        /\ WF_vars(IF k <= Len(forks) THEN WritePid(k) ELSE FALSE)
        /\ WF_vars(IF k <= Len(forks) THEN StartWatcher(k) ELSE FALSE)
        /\ WF_vars(IF k <= Len(forks) THEN WatcherTrailer(k) ELSE FALSE)


\* The blocks of the log file of call k, in file order.
LogOf(k) == logs[forks[k].log_path]

\* The log file of call k holds the trailer that reports exit code c.
HasTrailer(k, c) ==
    IF k <= Len(forks) /\ forks[k].log_path \in DOMAIN logs
    THEN \E i \in 1..Len(LogOf(k)) : LogOf(k)[i] = Block(k, "trailer", c)
    ELSE FALSE

\* The child of call k has exited with code c.
ExitedWith(k, c) ==
    IF k <= Len(forks)
    THEN forks[k].child.state = "exited" /\ forks[k].child.returncode = c
    ELSE FALSE

\* C24: fork_shell returns without waiting for the child (once the watcher
\* thread is started, returning is the next step whatever the child does);
\* and when the child has exited with code c, the log file eventually holds
\* the trailer with exit code c, as long as the launching process lives.
C24_ReturnsAtOnceTrailerFollows ==
    /\ [](\A k \in 1..Len(forks) : forks[k].pc = "started" => ENABLED ForkReturns(k))
    /\ \A k \in 1..MaxRequests : \A c \in ForkExitCodes :
        ExitedWith(k, c) ~> (~launcher \/ HasTrailer(k, c))

\* Two forks have returned: the log of the first holds "Exit code: 42", the
\* child of the second is still running.
C24_Witness ==
    /\ Len(forks) = 2
    /\ forks[1].pc = "returned"
    /\ HasTrailer(1, 42)
    /\ forks[2].pc = "returned"
    /\ forks[2].child.state = "running"
    /\ launcher

\* C25: in every log file the trailer is written at most once, only when the
\* child has exited, and no block follows it.
C25_TrailerIsLastWrite ==
    \A path \in DOMAIN logs :
        \A i \in 1..Len(logs[path]) :
            logs[path][i].what = "trailer"
            => /\ i = Len(logs[path])
               /\ forks[logs[path][i].fork].child.state = "exited"
               /\ \A j \in 1..Len(logs[path]) : logs[path][j].what = "trailer" => j = i

\* C26: a child exists only when the header is the first block of its log
\* file, so the header precedes everything the child and its descendants
\* write; and the PID/Log block is in the file only after the launch.
C26_HeaderBeforeLaunchPidAfter ==
    \A k \in 1..Len(forks) :
        /\ forks[k].child.state # "none"
           => /\ Len(LogOf(k)) >= 1
              /\ LogOf(k)[1] = Block(k, "header", 0)
        /\ forks[k].log_path \in DOMAIN logs
           => \A i \in 1..Len(LogOf(k)) :
                /\ LogOf(k)[i].what \in {"output", "descendant"}
                   => \E j \in 1..(i - 1) : LogOf(k)[j].what = "header"
                /\ LogOf(k)[i].what = "pid" => forks[k].child.state # "none"

\* The child's output reached the file before the PID/Log block did.
C26_Witness ==
    \E k \in 1..Len(forks) :
        /\ forks[k].log_path \in DOMAIN logs
        /\ Len(LogOf(k)) >= 3
        /\ LogOf(k)[1].what = "header"
        /\ LogOf(k)[2].what = "output"
        /\ LogOf(k)[3].what = "pid"

\* The step handles `pipeline fork <name>`.
HandlesRequest(name) ==
    \/ /\ Len(fout') = Len(fout) + 1
       /\ fout'[Len(fout')].name = name
       /\ fout'[Len(fout')].msg # "forked"
    \/ /\ Len(forks') = Len(forks) + 1
       /\ forks'[Len(forks')].path = name

\* C27: handling a fork request that names a declarative or a program
\* pipeline prints the unsupported-type message with the type, and makes no
\* fork_shell call: no log file, no process, no watcher.
C27_OnlyScriptsAreForked ==
    [][\A name \in DOMAIN Discovered :
          (Discovered[name] \in {"yaml", "python"} /\ HandlesRequest(name))
          => /\ fout' = Append(fout, [name |-> name, msg |-> "unsupported",
                                      arg |-> <<Discovered[name]>>])
             /\ UNCHANGED <<forks, logs>>]_vars

\* Both kinds were requested and turned away; nothing was forked or logged.
C27_Witness ==
    /\ Len(fout) = 2
    /\ fout[1] = [name |-> "p", msg |-> "unsupported", arg |-> <<"python">>]
    /\ fout[2] = [name |-> "y", msg |-> "unsupported", arg |-> <<"yaml">>]
    /\ forks = <<>>
    /\ logs = EmptyDict

\* C28: a fork_shell call that failed (open or Popen raised OSError) has
\* started no child and no watcher, holds no open file, and printed nothing.
C28_FailedLaunchLeavesNothing ==
    \A k \in 1..Len(forks) :
        forks[k].pc = "failed"
        => /\ forks[k].watcher = "none"
           /\ forks[k].child.state = "none"
           /\ forks[k].handle # "open"
           /\ \A i \in 1..Len(fout) :
                fout[i].msg = "forked" => fout[i].arg # <<forks[k].log_path>>

\* Popen raised after the header was written: the file was closed.
C28_Witness ==
    \E k \in 1..Len(forks) :
        /\ forks[k].pc = "failed"
        /\ forks[k].handle = "closed"
        /\ LogOf(k) = <<Block(k, "header", 0)>>
        /\ launcher

\* Call k has opened its log file.
Opened(k) == forks[k].handle # "none"

\* C29: two forks never share an identity or a log file; every block of a log
\* file was written by the fork the file belongs to; a file holds at most one
\* header and at most one trailer.
C29_ForksShareNothing ==
    /\ \A k \in 1..Len(forks), l \in 1..Len(forks) :
        (k # l /\ Opened(k) /\ Opened(l))
        => /\ forks[k].fork_id # forks[l].fork_id
           /\ forks[k].log_path # forks[l].log_path
    /\ \A path \in DOMAIN logs :
        \A i \in 1..Len(logs[path]) :
            /\ forks[logs[path][i].fork].log_path = path
            /\ \A j \in 1..Len(logs[path]) :
                (/\ logs[path][i].what = logs[path][j].what
                 /\ logs[path][i].what \in {"header", "trailer"})
                => i = j

\* Two forks run at the same time and each log holds its own fork's output.
C29_Witness ==
    /\ Len(forks) = 2
    /\ forks[1].child.state = "running"
    /\ forks[2].child.state = "running"
    /\ \E i \in 1..Len(LogOf(1)) : LogOf(1)[i] = Block(1, "output", 0)
    /\ \E i \in 1..Len(LogOf(2)) : LogOf(2)[i] = Block(2, "output", 0)


----------------------------------------------------------------------------
(* output.py: OutputBuffer on its own.                                     *)
(* SpecBuffer: a buffer of any capacity up to MaxCapacity, and up to       *)
(* MaxAdds calls of add.                                                   *)

\* The largest max_size.
MaxCapacity == 3

\* The number of add calls.
MaxAdds == 5

\* The results handed to add: two that differ.
AddedResults ==
    { CapturedResult(CmdC, 0, <<"o">>, <<>>), CapturedResult(CmdD, 1, <<>>, <<"e">>) }

\* OutputBuffer(max_size=capacity)
InitBuffer ==
    /\ capacity \in 0..MaxCapacity
    /\ added = <<>>
    /\ got = NoLast
    /\ buffer = <<>>
    /\ printed = <<>>
    /\ RunnerIdle
    /\ LoaderIdle
    /\ MaskIdle
    /\ ExecutorIdle
    /\ ResolveIdle
    /\ ForkIdle
    /\ DispatchIdle

\* buf.add(result)
Add(result) ==
    /\ Len(added) < MaxAdds
    /\ buffer' = BufferAdd(buffer, result, capacity)
    /\ added' = Append(added, result)
    /\ got' = NoLast
    /\ UNCHANGED <<capacity, printed, runnerVars, loaderVars, maskVars, execVars, resolveVars,
                   forkVars, dispatchVars>>

\* The arguments of last: negative, in range, and beyond every capacity.
LastArguments == (0 - 2)..(MaxCapacity + 1)

\* buf.last(n)
Last(n) ==
    /\ got' = [called |-> TRUE, n |-> n, result |-> BufferLast(buffer, n)]
    /\ UNCHANGED <<buffer, capacity, added, printed, runnerVars, loaderVars, maskVars, execVars,
                   resolveVars, forkVars, dispatchVars>>

NextBuffer ==
    \/ \E result \in AddedResults : Add(result)
    \/ \E n \in LastArguments : Last(n)

SpecBuffer == InitBuffer /\ [][NextBuffer]_vars

\* C30: after any sequence of adds the buffer holds at most capacity results,
\* and exactly the min(capacity, number of adds) most recently added ones, in
\* the order they were added.
C30_HoldsMostRecentUpToCapacity ==
    /\ Len(buffer) <= capacity
    /\ Len(buffer) = Min({capacity, Len(added)})
    /\ \A i \in 1..Len(buffer) : buffer[i] = added[Len(added) - Len(buffer) + i]

\* Three results went into a buffer of capacity two: the first, which differs
\* from the other two, is gone.
C30_Witness ==
    /\ capacity = 2
    /\ Len(added) = 3
    /\ added[1] # added[2]
    /\ added[2] = added[3]
    /\ buffer = <<added[2], added[3]>>


\* The number of results the buffer retains after the adds made so far.
Retained == Min({capacity, Len(added)})

\* C31: last(n) returns the result added n additions before the most recent
\* one when 0 <= n < number of retained results, and none for every other n
\* (too large, negative, empty buffer); and a call of last leaves the buffer
\* as it was.
C31_LastCountsBackFromNewest ==
    /\ [](got.called
          => got.result = IF 0 <= got.n /\ got.n < Retained
                          THEN <<added[Len(added) - got.n]>>
                          ELSE <<>>)
    /\ [][got'.called => buffer' = buffer]_vars

\* Capacity two, three adds whose last two differ: last(1) is the second add
\* and not the newest.
C31_Witness ==
    /\ capacity = 2
    /\ Len(added) = 3
    /\ added[2] # added[3]
    /\ got.called
    /\ got.n = 1
    /\ got.result = <<added[2]>>


----------------------------------------------------------------------------
(* app.py: parse_input and the loop of ReplApp.run.                        *)
(* SpecDispatch: the REPL reads up to MaxLines lines; each step is one     *)
(* iteration of the loop, from the prompt to the end of the handler the    *)
(* line is dispatched to, the confirmation prompt and Executor.run         *)
(* included.                                                               *)

\* The number of lines read.
MaxLines == 3

\* str.lstrip / str.rstrip / str.strip, for the blank.
RECURSIVE LStrip(_)
LStrip(s) == IF s # <<>> /\ Head(s) = " " THEN LStrip(Tail(s)) ELSE s

RECURSIVE RStrip(_)
RStrip(s) == IF s # <<>> /\ s[Len(s)] = " " THEN RStrip(SubSeq(s, 1, Len(s) - 1)) ELSE s

Strip(s) == RStrip(LStrip(s))

\* The index of the first blank of s at or after i, 0 when there is none.
RECURSIVE FirstBlank(_, _)
FirstBlank(s, i) ==
    IF i > Len(s) THEN 0 ELSE IF s[i] = " " THEN i ELSE FirstBlank(s, i + 1)

\* parse_input (app.py 40-50): the command word and the arguments.
ParseInput(line) ==
    LET stripped == Strip(line) IN
    IF stripped = <<>> THEN [cmd |-> <<>>, args |-> <<>>]
    ELSE IF Head(stripped) = "!" THEN [cmd |-> <<"!">>, args |-> Strip(Tail(stripped))]
    ELSE LET blank == FirstBlank(stripped, 1) IN
         IF blank = 0 THEN [cmd |-> stripped, args |-> <<>>]
         ELSE [cmd |-> SubSeq(stripped, 1, blank - 1),
               args |-> Strip(SubSeq(stripped, blank + 1, Len(stripped)))]

\* str.lower, for the letters of an answer.
Lower(s) == [i \in 1..Len(s) |-> IF s[i] = "Y" THEN "y" ELSE IF s[i] = "N" THEN "n" ELSE s[i]]

ModeWord == <<"m", "o", "d", "e">>
HelpWord == <<"h", "e", "l", "p">>

\* BUILTINS (app.py 24-37)
Builtins ==
    { HelpWord, ModeWord,
      <<"c", "o", "m", "m", "a", "n", "d", "s">>,
      <<"p", "i", "p", "e", "l", "i", "n", "e">>,
      <<"l", "a", "s", "t">>,
      <<"h", "i", "s", "t", "o", "r", "y">>,
      <<"v", "a", "r", "s">>,
      <<"r", "e", "l", "o", "a", "d">>,
      <<"i", "n", "i", "t">>,
      <<"c", "o", "n", "f", "i", "g">>,
      <<"e", "x", "i", "t">>,
      <<"q", "u", "i", "t">> }

\* A faulty test: the shell escape is allowed in every mode.
AllowShellEscapeAlways(m) == TRUE

\* allow_shell_escape (app.py 81-83)
AllowShellEscape(m) == m = Open

\* A faulty test: everything but "n" confirms.
ConfirmedUnlessNo(response) == Lower(response) # <<"n">>

\* app.py line 452: response.lower() == "y"
Confirmed(response) == Lower(response) = <<"y">>

\* CommandRegistry.has
RegistryHas(reg, name_or_alias) ==
    name_or_alias \in DOMAIN reg.commands \/ name_or_alias \in DOMAIN reg.alias_map

\* The command k and its alias a.
CmdK == <<"k">>
AliasA == <<"a">>

\* The registered commands: c runs "e"; k, with the alias a, runs "f" and has
\* `confirm` set.
DispatchRegistry ==
    [commands |-> (CmdC :> [command |-> <<"e">>, timeout |-> <<>>, env |-> EmptyDict,
                            confirm |-> FALSE]
                   @@ CmdK :> [command |-> <<"f">>, timeout |-> <<>>, env |-> EmptyDict,
                               confirm |-> TRUE]),
     alias_map |-> (AliasA :> CmdK)]

\* The lines typed: blank, shell escapes, unregistered words, registered
\* commands (with and without trailing text), an alias, mode commands, help.
Lines ==
    { <<" ">>, <<"!", "x">>, <<" ", "!", " ", "x">>, <<"x">>, <<"x", " ", "c">>,
      CmdC, CmdC \o <<" ", "x">>, CmdK, AliasA,
      ModeWord, ModeWord \o <<" ">> \o Open, ModeWord \o <<" ">> \o Strict,
      ModeWord \o <<" ", "x">>, HelpWord }

\* The answers to "Run '<name>'? [y/N]".
Responses == { <<>>, <<"y">>, <<"Y">>, <<"n">>, <<"y", "e", "s">>, <<" ", "y">> }

\* What the loop prints.
DisabledMsg == "Shell escape disabled in strict mode."
UnknownMsg == "Unknown command"
CancelledMsg == "  Cancelled."
FailedMsg == "Command failed"
SwitchedMsg == "Mode switched to"
CurrentMsg == "Current mode"
ModeUsageMsg == "Usage: mode [strict|open]"
ErrorMsg == "Error"

InitDispatch ==
    /\ mode \in {Strict, Open}
    /\ ran = <<>>
    /\ handled = 0
    /\ typed = <<>>
    /\ reply = NotAsked
    /\ buffer = <<>>
    /\ printed = <<>>
    /\ MaskIdle
    /\ RunnerIdle
    /\ LoaderIdle
    /\ ExecutorIdle
    /\ ResolveIdle
    /\ ForkIdle
    /\ HistoryIdle

beyondDispatch ==
    <<runnerVars, loaderVars, maskVars, execVars, resolveVars, forkVars, historyVars>>

\* What the failure notice of lines 461-462 and 468-469 adds.
FailureNotice(returncode) == IF returncode # 0 THEN <<FailedMsg>> ELSE <<>>

\* _execute_shell(command) (app.py 464-469), the child ending with returncode.
RunShell(command, returncode) ==
    /\ ran' = Append(ran, [via |-> "shell", text |-> command])
    /\ buffer' = BufferAdd(buffer, ExecutorRun(store, command, returncode, <<>>, <<>>),
                           BufferSize)
    /\ printed' = FailureNotice(returncode)
    /\ UNCHANGED <<mode, reply>>

\* _execute_config_command(name_or_alias) (app.py 442-462) for a registered
\* name; response is what input() returns when the prompt is shown.
RunConfigCommand(name_or_alias, response, returncode) ==
    LET cmd == RegistryGet(DispatchRegistry, name_or_alias)[1]
        resolved == Resolve(MakeResolver(store), environ, cmd.command)
    IN
    /\ reply' = IF cmd.confirm THEN [asked |-> TRUE, text |-> response] ELSE NotAsked
    /\ IF cmd.confirm /\ ~Confirmed(response)
       THEN /\ printed' = <<CancelledMsg>>
            /\ UNCHANGED <<ran, buffer>>
       ELSE IF ~resolved.ok
       THEN /\ printed' = <<ErrorMsg>>
            /\ UNCHANGED <<ran, buffer>>
       ELSE /\ ran' = Append(ran, [via |-> "config", text |-> resolved.text])
            /\ buffer' = BufferAdd(buffer,
                                   ExecutorRun(store, resolved.text, returncode, <<>>, <<>>),
                                   BufferSize)
            /\ printed' = FailureNotice(returncode)
    /\ UNCHANGED mode

\* _handle_mode(args) (app.py 417-426)
HandleMode(args) ==
    /\ IF args = <<>>
       THEN mode' = mode /\ printed' = <<CurrentMsg>>
       ELSE IF args \in {Strict, Open}
       THEN mode' = args /\ printed' = <<SwitchedMsg>>
       ELSE mode' = mode /\ printed' = <<ModeUsageMsg>>
    /\ UNCHANGED <<ran, buffer, reply>>

\* One iteration of the loop of ReplApp.run (app.py 484-543) on the line read.
HandleLine(line, response, returncode) ==
    /\ handled < MaxLines
    /\ handled' = handled + 1
    /\ typed' = line
    /\ LET parsed == ParseInput(line) IN
       IF parsed.cmd = <<>>
       THEN UNCHANGED <<mode, ran, buffer, printed, reply>>
       ELSE IF parsed.cmd = ModeWord
       THEN HandleMode(parsed.args)
       ELSE IF parsed.cmd \in Builtins
       THEN printed' = <<parsed.cmd>> /\ UNCHANGED <<mode, ran, buffer, reply>>
       ELSE IF parsed.cmd = <<"!">>
       THEN IF AllowShellEscape(mode)
            THEN RunShell(parsed.args, returncode)
            ELSE printed' = <<DisabledMsg>> /\ UNCHANGED <<mode, ran, buffer, reply>>
       ELSE IF RegistryHas(DispatchRegistry, parsed.cmd)
       THEN RunConfigCommand(parsed.cmd, response, returncode)
       ELSE IF AllowShellEscape(mode)
            THEN RunShell(line, returncode)
            ELSE printed' = <<UnknownMsg>> /\ UNCHANGED <<mode, ran, buffer, reply>>
    /\ UNCHANGED beyondDispatch

NextDispatch ==
    \E line \in Lines, response \in Responses, returncode \in {0, 1} :
        HandleLine(line, response, returncode)

SpecDispatch == InitDispatch /\ [][NextDispatch]_vars

\* The command texts of the registry, resolved.
RegisteredTexts ==
    { Resolve(MakeResolver(store), environ, DispatchRegistry.commands[n].command).text :
        n \in DOMAIN DispatchRegistry.commands }

\* The line read by this step is a shell escape, or its first word is neither
\* a builtin nor a registered name or alias.
RawShellLine ==
    LET parsed == ParseInput(typed') IN
    /\ parsed.cmd # <<>>
    /\ \/ parsed.cmd = <<"!">>
       \/ parsed.cmd \notin Builtins /\ ~RegistryHas(DispatchRegistry, parsed.cmd)

NamesConfirmCommand ==
    LET parsed == ParseInput(typed') IN
    /\ parsed.cmd \notin Builtins
    /\ parsed.cmd # <<"!">>
    /\ RegistryHas(DispatchRegistry, parsed.cmd)
    /\ RegistryGet(DispatchRegistry, parsed.cmd)[1].confirm

\* C40: a step that handles a line naming a command with `confirm` shows the
\* prompt; the command reaches the Executor only if the answer, lowercased,
\* is "y"; with any other answer "Cancelled." is printed, no process is
\* started and nothing is added to the buffer.
C40_ConfirmGuardsExecution ==
    [][(handled' = handled + 1 /\ NamesConfirmCommand)
       => /\ reply'.asked
          /\ ran' # ran => Lower(reply'.text) = <<"y">>
          /\ Lower(reply'.text) # <<"y">>
             => (ran' = ran /\ buffer' = buffer /\ printed' = <<CancelledMsg>>)]_vars

\* k was answered "Y" and ran; then its alias was answered "yes" and did not.
C40_Witness ==
    /\ handled = 2
    /\ typed = AliasA
    /\ reply = [asked |-> TRUE, text |-> <<"y", "e", "s">>]
    /\ printed = <<CancelledMsg>>
    /\ ran = << [via |-> "config", text |-> <<"f">>] >>
    /\ Len(buffer) = 1


\* SpecLogs: one fork, whose script prints ordinary lines and lines that look
\* like the trailer's, for the listing of `pipeline logs list`.
NextLogs ==
    \/ \E name \in RequestNames : forks = <<>> /\ ForkPipeline(name)
    \/ \E k \in 1..Len(forks) : OpenLog(k)
    \/ \E k \in 1..Len(forks) : OpenFails(k)
    \/ \E k \in 1..Len(forks) : WriteHeader(k)
    \/ \E k \in 1..Len(forks) : Popen(k)
    \/ \E k \in 1..Len(forks) : PopenFails(k)
    \/ \E k \in 1..Len(forks) : WritePid(k)
    \/ \E k \in 1..Len(forks) : StartWatcher(k)
    \/ \E k \in 1..Len(forks) : ForkReturns(k)
    \/ \E k \in 1..Len(forks), shown \in ChildPrints : ChildWrites(k, shown)
    \/ \E k \in 1..Len(forks) : ChildExits(k)
    \/ \E k \in 1..Len(forks) : DescendantWrites(k)
    \/ \E k \in 1..Len(forks) : DescendantExits(k)
    \/ \E k \in 1..Len(forks) : WatcherTrailer(k)
    \/ LauncherExits

SpecLogs == InitFork /\ [][NextLogs]_vars

\* The lines of a block as _logs_list reads them, each a sequence of words:
\* the header, the PID/Log lines and the trailer as fork_shell writes them
\* (pipeline.py 257-261, 279-284, 293-299), the output as the script printed it.
BlockLines(b) ==
    CASE b.what = "header" -> << <<"--- FORK:", "s", "---">>, <<"Started:">>, <<"Script:">> >>
      [] b.what = "pid" -> << <<"PID:">>, <<"Log:">>, <<"---">> >>
      [] b.what = "trailer" ->
            << <<>>, <<"---">>, <<"Finished:">>, <<"Exit code:", b.code>>, <<"Duration:">>,
               <<"---">> >>
      [] b.what = "output" ->
            IF b.code = 0 THEN << <<"hello">> >> ELSE << <<"Exit code:", b.code>> >>
      [] OTHER -> << <<"late">> >>

\* content.splitlines() of a log file.
RECURSIVE FileLines(_)
FileLines(blocks) ==
    IF blocks = <<>> THEN <<>> ELSE BlockLines(Head(blocks)) \o FileLines(Tail(blocks))

\* The status _logs_list shows (app.py 320-330): "running", replaced at every
\* line that starts with "Exit code: " by "exit" and the rest of that line.
RECURSIVE StatusFrom(_, _)
StatusFrom(lines, status) ==
    IF lines = <<>> THEN status
    ELSE StatusFrom(Tail(lines),
                    IF Head(lines) # <<>> /\ Head(Head(lines)) = "Exit code:"
                    THEN <<"exit">> \o Tail(Head(lines))
                    ELSE status)

ListedStatus(blocks) == StatusFrom(FileLines(blocks), <<"running">>)

\* C33: the listing shows a fork as running exactly while its log has no
\* trailer, and shows the trailer's exit code once it has one, whatever the
\* script printed.
C33_ListingFollowsTrailer ==
    \A k \in 1..Len(forks) :
        forks[k].log_path \in DOMAIN logs
        => /\ ListedStatus(LogOf(k)) = <<"running">>
              <=> ~\E i \in 1..Len(LogOf(k)) : LogOf(k)[i].what = "trailer"
           /\ \A i \in 1..Len(LogOf(k)) :
                LogOf(k)[i].what = "trailer"
                => ListedStatus(LogOf(k)) = <<"exit", LogOf(k)[i].code>>


-----------------------------------------------------------------------------
(* Exceptions that leave run_yaml *)

\* The text step i hands to resolve(): its `run`, or the text of the registered
\* command it names; empty when it has neither.
ActionText(i) ==
    LET step == pipeline.steps[i] IN
    IF step.command # <<>>
    THEN LET cmd == RegistryGet(registry, step.command) IN
         IF cmd = <<>> THEN <<>> ELSE cmd[1].command
    ELSE step.run

\* No scope resolves a placeholder of the text of step i (the scopes are those
\* of the run in progress).
UnresolvedText(i) ==
    /\ pc # "begin"
    /\ ActionText(i) # <<>>
    /\ ~Resolve(resolver, environ, ActionText(i)).ok

\* The loop is at step i and has found that its conditions do not skip it.
AtUnskipped(i) ==
    /\ pc = "loop"
    /\ idx = i
    /\ i <= NumSteps
    /\ ~SkipsStep(pipeline.steps[i], results, resolver, environ)

\* C34: a step that is not skipped and whose text has a placeholder no scope
\* resolves ends run_yaml with VariableError whatever its on_failure: the
\* Executor is called neither for it nor for a later step, and no list of
\* StepResults is returned.
C34_UnresolvedStepAbortsRun ==
    /\ [](\A i \in 1..NumSteps :
            (UnresolvedText(i) /\ ~(i <= Len(results) /\ results[i].skipped))
            => /\ \A j \in CalledSteps : j < i
               /\ Returned => Len(results) < i
               /\ (pc = "raised" /\ idx = i) => error = "VariableError")
    /\ [][\A i \in 1..NumSteps :
            (AtUnskipped(i) /\ UnresolvedText(i))
            => /\ pc' = "raised"
               /\ error' = "VariableError"
               /\ trace' = trace]_vars

C34_Witness ==
    /\ pc = "raised"
    /\ error = "VariableError"
    /\ idx = 2
    /\ UnresolvedText(2)
    /\ pipeline.steps[2].on_failure = "continue"
    /\ Ran(1)
    /\ CalledSteps = {1}


-----------------------------------------------------------------------------
(* The shape of the list run_yaml returns *)

\* The policies under which a failure ends the loop (lines 213 and 215).
StoppingPolicies == {"abort", "skip_remaining"}

\* C36: the list run_yaml returns is aligned with a prefix of the steps: it is
\* no longer than the steps, its i-th entry has the name of the i-th step,
\* every entry before the last succeeded, was skipped, or failed under a policy
\* that does not stop the run, and it is shorter than the steps only when its
\* last entry is a failed step with policy abort or skip_remaining.
C36_ResultsAlignWithStepPrefix ==
    Returned =>
        /\ Len(results) <= NumSteps
        /\ \A i \in 1..Len(results) : results[i].step_name = pipeline.steps[i].name
        /\ \A i \in 1..(Len(results) - 1) :
              \/ results[i].succeeded
              \/ results[i].skipped
              \/ pipeline.steps[i].on_failure \notin StoppingPolicies
        /\ Len(results) < NumSteps
           => /\ Len(results) >= 1
              /\ FailedAt(Len(results))
              /\ ~results[Len(results)].succeeded
              /\ pipeline.steps[Len(results)].on_failure \in StoppingPolicies

C36_Witness ==
    /\ Returned
    /\ NumSteps = 2
    /\ Len(results) = 1
    /\ pipeline.steps[1].name # pipeline.steps[2].name
    /\ pipeline.steps[1].on_failure = "skip_remaining"
    /\ FailedAt(1)

\* The first step has a prev_step clause.
FirstStepAsksPrevStep ==
    /\ NumSteps >= 1
    /\ \E it \in Items(pipeline.steps[1]) : it[1] = PrevStepKey

\* C37: a prev_step clause on the first step never passes, whatever value it
\* expects: the first step is recorded as skipped and its command is not
\* handed to the Executor.
C37_PrevStepOnFirstStepSkips ==
    /\ [](FirstStepAsksPrevStep
           => /\ 1 \notin CalledSteps
              /\ ~(pc = "raised" /\ idx = 1)
              /\ Len(results) >= 1 => (results[1].skipped /\ results[1].succeeded))
    /\ [][(FirstStepAsksPrevStep /\ pc = "loop" /\ idx = 1)
          => (Len(results') = 1 /\ results'[1].skipped /\ idx' = 2 /\ trace' = trace)]_vars

C37_Witness ==
    /\ Returned
    /\ NumSteps = 2
    /\ <<PrevStepKey, One>> \in Items(pipeline.steps[1])
    /\ results[1].skipped
    /\ Ran(2)

-----------------------------------------------------------------------------
(* app.py _run_pipeline, lines 238-246: load_yaml, then run_yaml on its result *)

\* The entries of `steps` in the files that are run: every subset of the keys
\* name, run, on_failure and when, with every on_failure value.
PolicyKeys == {"name", "run", "on_failure", "when"}

PolicyStepData(f) ==
    [name |-> NameA, run |-> PlainText, on_failure |-> f, when |-> WhenPrevFailed]

PolicyStepDatas ==
    { [k \in ks |-> PolicyStepData(f)[k]] : ks \in SUBSET PolicyKeys, f \in OnFailureValues }

PolicyFiles ==
    { [kind |-> "mapping", data |-> "steps" :> st] :
        st \in UNION { [1..n -> PolicyStepDatas] : n \in 0..MaxSteps } }
    \cup { [kind |-> "yaml_error", data |-> EmptyDict] }

InitLoadRun ==
    /\ file \in PolicyFiles
    /\ loaded = NotLoaded
    /\ RunnerIdle
    /\ MaskIdle
    /\ ExecutorIdle
    /\ ReplIdle
    /\ AuxIdle

\* Line 239: load_yaml; its result is the argument of run_yaml.
LoadForRun ==
    /\ loaded.status = "unloaded"
    /\ loaded' = LoadYaml(file)
    /\ pipeline' = LoadYaml(file).pipeline
    /\ UNCHANGED <<file, registry, environ, resolver, results, idx, pc, pending, trace, error,
                   outcome, proc, runs, prior>>
    /\ UNCHANGED <<maskVars, execVars, replVars, auxVars>>

\* Line 240 is reached only when load_yaml has returned.
RunsLoaded == loaded.status = "loaded"

NextLoadRun ==
    \/ LoadForRun
    \/ RunsLoaded /\ Begin
    \/ RunsLoaded /\ SkipStep
    \/ RunsLoaded /\ CallExecutor
    \/ RunsLoaded /\ RaiseInStep
    \/ RunsLoaded /\ ExecutorReturn
    \/ RunsLoaded /\ LoopExhausted
    \/ RunsLoaded /\ ReportOutcome

SpecLoadRun == InitLoadRun /\ [][NextLoadRun]_vars

\* The i-th entry of `steps` in the file.
Declared(i) == file.data["steps"][i]

\* The entry declares an on_failure other than `abort` and `skip_remaining`.
DeclaresOtherPolicy(i) ==
    /\ "on_failure" \in DOMAIN Declared(i)
    /\ Declared(i)["on_failure"] \notin {"abort", "skip_remaining"}

\* C35: a step that declares no on_failure is loaded with the policy `abort`
\* and stops the run when it fails; a failing step that declares any value
\* other than `abort` and `skip_remaining`, documented or not, does not stop
\* the run.
C35_DefaultAbortOthersContinue ==
    /\ [](RunsLoaded =>
            \A i \in 1..NumSteps :
                /\ "on_failure" \notin DOMAIN Declared(i)
                   => /\ pipeline.steps[i].on_failure = "abort"
                      /\ FailedAt(i)
                         => (Returned /\ Len(results) = i /\ \A j \in CalledSteps : j <= i)
                /\ (DeclaresOtherPolicy(i) /\ FailedAt(i) /\ i < NumSteps /\ Returned)
                   => Len(results) > i)
    /\ [][(RunsLoaded /\ pc = "exec" /\ pc' # "exec" /\ DeclaresOtherPolicy(idx)
           /\ ~results'[Len(results')].succeeded)
          => (pc' = "loop" /\ idx' = idx + 1)]_vars

C35_Witness ==
    /\ RunsLoaded
    /\ pc = "returned"
    /\ NumSteps = 2
    /\ DeclaresOtherPolicy(1)
    /\ Declared(1)["on_failure"] = "retry"
    /\ "on_failure" \notin DOMAIN Declared(2)
    /\ FailedAt(1)
    /\ FailedAt(2)


-----------------------------------------------------------------------------
(* variables.py: VAR_PATTERN.sub(_replace, text), one call of _replace at a time *)

\* The first position at or after i where a match of VAR_PATTERN starts, 0
\* when there is none.
RECURSIVE NextMatch(_, _)
NextMatch(t, i) ==
    IF i > Len(t) THEN 0
    ELSE IF MatchEnd(t, i) # 0 THEN i
    ELSE NextMatch(t, i + 1)

\* The state of a call of sub(): `text` is the output built so far, `rest` the
\* part of the input not scanned yet.
Scanning(out, rest) == [status |-> "scanning", ok |-> TRUE, text |-> out, rest |-> rest]

\* A faulty sub(): the value _replace returns is put back in front of the
\* unscanned input and scanned again.
SubStepRescanning(r, env, s) ==
    LET i == NextMatch(s.rest, 1) IN
    IF i = 0 THEN [status |-> "done", ok |-> TRUE, text |-> s.text \o s.rest]
    ELSE LET m == MatchEnd(s.rest, i)
             var_name == SubSeq(s.rest, i + 2, m - 1)
             v == Replace(r, env, var_name)
         IN IF v = <<>> THEN [status |-> "done", ok |-> FALSE, text |-> var_name]
            ELSE Scanning(s.text \o SubSeq(s.rest, 1, i - 1),
                          v[1] \o SubSeq(s.rest, m + 1, Len(s.rest)))

\* sub() up to and including its next call of _replace: the text before the
\* match is copied, the match is replaced by what _replace returns, and the
\* scan goes on behind the match; without a further match the remainder is
\* copied and sub() returns; a raise in _replace ends the call.
SubStep(r, env, s) ==
    LET i == NextMatch(s.rest, 1) IN
    IF i = 0 THEN [status |-> "done", ok |-> TRUE, text |-> s.text \o s.rest]
    ELSE LET m == MatchEnd(s.rest, i)
             var_name == SubSeq(s.rest, i + 2, m - 1)
             v == Replace(r, env, var_name)
         IN IF v = <<>> THEN [status |-> "done", ok |-> FALSE, text |-> var_name]
            ELSE Scanning(s.text \o SubSeq(s.rest, 1, i - 1) \o v[1],
                          SubSeq(s.rest, m + 1, Len(s.rest)))

\* Values that look like placeholders: of the other name, of the name itself,
\* an opened placeholder; and a plain value.
NestedValues ==
    { <<"$", "{", "b", "}">>, <<"$", "{", "a", "}">>, <<"$", "{">>, <<"w">> }

\* The resolvers: a is a pipeline variable or a secret with one of the values;
\* b is a configured variable whose value is the placeholder of a, a plain
\* configured variable, or held nowhere.
NestedResolvers ==
    { [sc \in {"pipeline_vars", "config_vars", "secrets", "environ"} |->
          (IF sc = holder THEN NameA :> va ELSE EmptyDict)
          @@ (IF sc = "config_vars" /\ vb # <<>> THEN NameB :> vb[1] ELSE EmptyDict)] :
      holder \in {"pipeline_vars", "secrets"},
      va \in NestedValues,
      vb \in {<<>>, << <<"$", "{", "a", "}">> >>, << <<"w">> >>} }

InitNested ==
    /\ vr \in NestedResolvers
    /\ template \in Templates
    /\ answer = NotResolved
    /\ RunnerIdle
    /\ LoaderIdle
    /\ MaskIdle
    /\ ExecutorIdle
    /\ ReplIdle
    /\ ForkIdle
    /\ HistoryIdle
    /\ DispatchIdle

\* resolve(template) is called: sub() starts at the head of the text.
CallSub ==
    /\ answer.status = "none"
    /\ answer' = Scanning(<<>>, template)
    /\ UNCHANGED <<vr, template, beyondResolve>>

\* _replace returns a value for the next match.
ReplaceReturns ==
    /\ answer.status = "scanning"
    /\ SubStep(vr, vr.environ, answer).status = "scanning"
    /\ answer' = SubStep(vr, vr.environ, answer)
    /\ UNCHANGED <<vr, template, beyondResolve>>

\* _replace raises VariableError for the next match.
ReplaceRaises ==
    /\ answer.status = "scanning"
    /\ SubStep(vr, vr.environ, answer).status = "done"
    /\ ~SubStep(vr, vr.environ, answer).ok
    /\ answer' = SubStep(vr, vr.environ, answer)
    /\ UNCHANGED <<vr, template, beyondResolve>>

\* No further match: sub() returns, and so does resolve.
SubReturns ==
    /\ answer.status = "scanning"
    /\ SubStep(vr, vr.environ, answer).status = "done"
    /\ SubStep(vr, vr.environ, answer).ok
    /\ answer' = SubStep(vr, vr.environ, answer)
    /\ UNCHANGED <<vr, template, beyondResolve>>

NextNested ==
    \/ CallSub
    \/ ReplaceReturns
    \/ ReplaceRaises
    \/ SubReturns

SpecNested == InitNested /\ [][NextNested]_vars

\* The call runs on: resolve is ordinary sequential code.
FairSpecNested == SpecNested /\ WF_vars(NextNested)

\* The value resolve finds for a held name.
ValueOf(name) == vr[HighestHolder(name)][name]

\* C38: resolve substitutes in one pass.  A value is inserted as it is, also
\* when it has the form of a placeholder; whether the call fails depends on the
\* placeholders of the text alone, never on those of a value; every call of
\* _replace shortens what is left to scan, and resolve returns.
C38_SinglePassSubstitution ==
    /\ [](answer.status = "done"
           => /\ answer.ok
                 <=> \A k \in 1..Len(PlaceholderNames(template, 1)) :
                        ~Unheld(PlaceholderNames(template, 1)[k])
              /\ \A n1 \in {NameA, NameB} :
                    (~Unheld(n1) /\ template = PlaceholderOf(n1))
                    => answer.text = ValueOf(n1)
              /\ \A n1 \in {NameA, NameB}, n2 \in {NameA, NameB} :
                    (/\ ~Unheld(n1)
                     /\ ~Unheld(n2)
                     /\ template = PlaceholderOf(n1) \o <<"a">> \o PlaceholderOf(n2))
                    => answer.text = ValueOf(n1) \o <<"a">> \o ValueOf(n2)
              /\ answer = [status |-> "done"] @@ Resolve(vr, vr.environ, template))
    /\ [][(answer.status = "scanning" /\ answer'.status = "scanning")
          => Len(answer'.rest) < Len(answer.rest)]_vars
    /\ <>(answer.status = "done")

\* resolve("${a}") returned "${b}" although no scope holds b.
C38_Witness ==
    /\ answer.status = "done"
    /\ template = PlaceholderOf(NameA)
    /\ Unheld(NameB)
    /\ answer.ok
    /\ answer.text = PlaceholderOf(NameB)


====
